---- MODULE Spec2Model ----
(***************************************************************************)
(* Grammar analysis (FIRST / FOLLOW / LL(1) table), the table-driven       *)
(* predictive parser with its parse-tree-to-AST converter, and the parser  *)
(* front end of the custom scripting language (ep11).                      *)
(*                                                                         *)
(* A JavaScript Set is modelled as a sequence without duplicates in        *)
(* insertion order, a Map<Terminal, Production> as a sequence of           *)
(* [key, val] entries in insertion order: iteration order is part of what  *)
(* the code does (the order of the conflict warnings, the scan of isLL1).  *)
(***************************************************************************)
EXTENDS Integers, Sequences, FiniteSets, TLC

VARIABLES
  grammar,        \* the Grammar under analysis / held by the parser
  firstSets,      \* FirstSets: symbol -> Set<Terminal>
  followSets,     \* FollowSets: nonterminal -> Set<Terminal>
  parseTable,     \* ParseTable: nonterminal -> Map<Terminal, Production>
  warnings,       \* console.warn lines of buildParseTable: <<[lhs, terminal]>>
  pc,             \* position of the analysis / parser life cycle
  pi,             \* index of the production the current pass is at
  changed,        \* the `changed` flag of the fixed-point loops
  run,            \* number of the analysis run (1 or 2)
  prev,           \* results of the previous analysis run
  isLL1Result,    \* what isLL1 returned ("none" before the call)
  \* EnhancedLLParser: the fields of the instance and the locals of buildParseTree
  tokens,             \* this.tokens
  currentTokenIndex,  \* this.currentTokenIndex (from 0)
  stack,              \* the symbol stack, top last
  nodeStack,          \* the node stack: handles into `nodes`, top last
  nodes,              \* the parse-tree nodes allocated by this parse; 1 is the root
  parseTree,          \* this.parseTree
  thrown,             \* the error thrown inside parse, NoError if none
  outcome,            \* what the last parse call returned
  calls,              \* number of parse calls begun on the instance
  \* Parser (frontend/parser.ts)
  parserType,         \* this.parserType
  \* the interpreter (runtime/interpreter.ts)
  block,              \* the statements of the block eval_block is evaluating
  epc,                \* position of the interpreter inside eval_block and the loop
  si,                 \* index of the statement eval_block is at
  lastResult,         \* the local `result` last assigned
  loopValue,          \* the value a loop statement returns to its caller
  blockResult,        \* what eval_block returned
  iters,              \* executions of the loop body so far
  updates             \* evaluations of the update expression so far

analysisVars == <<grammar, firstSets, followSets, parseTable, warnings,
                  pc, pi, changed, run, prev, isLL1Result>>

parserVars == <<tokens, currentTokenIndex, stack, nodeStack, nodes, parseTree,
                thrown, outcome, calls, parserType>>

evalVars == <<block, epc, si, lastResult, loopValue, blockResult, iters, updates>>

vars == <<analysisVars, parserVars, evalVars>>

----------------------------------------------------------------------------
(* Bounds of the model *)

MaxProds == 3

MaxTokens == 2

MaxStack == 24

MaxParses == 2

----------------------------------------------------------------------------
(* Sets and maps in insertion order *)

Range(s) == {s[i] : i \in 1..Len(s)}

SetHas(s, x) == \E i \in 1..Len(s) : s[i] = x

SetAdd(s, x) == IF SetHas(s, x) THEN s ELSE Append(s, x)

RECURSIVE SetAddAll(_, _)
SetAddAll(s, t) ==
  IF t = <<>> THEN s ELSE SetAddAll(SetAdd(s, Head(t)), Tail(t))

MapHas(m, k) == \E i \in 1..Len(m) : m[i].key = k

MapGet(m, k) == m[CHOOSE i \in 1..Len(m) : m[i].key = k].val

MapSet(m, k, v) ==
  IF MapHas(m, k)
  THEN [i \in 1..Len(m) |-> IF m[i].key = k THEN [key |-> k, val |-> v] ELSE m[i]]
  ELSE Append(m, [key |-> k, val |-> v])

MapKeys(m) == [i \in 1..Len(m) |-> m[i].key]

----------------------------------------------------------------------------
(* Grammars: enhanced_ll_parser/grammar.ts, ll1_grammar.ts *)

EPSILON == "epsilon"

END_MARKER == "$"

P(id, lhs, rhs) == [id |-> id, lhs |-> lhs, rhs |-> rhs]

enhancedGrammar ==
  [terminals |->
     <<"let", "const", "identifier", "=", ";", "(", ")", "{", "}", "[", "]",
       ",", ":", ".", "number", "string", "fn", "if", "else", "while", "for",
       "return", "break", "continue", "op", END_MARKER>>,
   nonTerminals |->
     <<"Program", "StmtList", "Stmt", "VarDecl", "FnDecl", "IfStmt", "WhileStmt",
       "ForStmt", "ReturnStmt", "BreakStmt", "ContinueStmt", "ExprStmt", "Block",
       "Params", "ParamList", "Expr", "AssignExpr", "CompExpr", "AddExpr",
       "MultExpr", "UnaryExpr", "CallExpr", "MemberExpr", "PrimaryExpr", "Args",
       "ArgList", "ObjLiteral", "PropList", "Prop", "ArrayLiteral", "Elements">>,
   productions |-> <<
     P(1, "Program", <<"StmtList">>),
     P(2, "StmtList", <<"Stmt", "StmtList">>),
     P(3, "StmtList", <<EPSILON>>),
     P(4, "Stmt", <<"VarDecl">>),
     P(5, "Stmt", <<"FnDecl">>),
     P(6, "Stmt", <<"IfStmt">>),
     P(7, "Stmt", <<"WhileStmt">>),
     P(8, "Stmt", <<"ForStmt">>),
     P(9, "Stmt", <<"ReturnStmt">>),
     P(10, "Stmt", <<"BreakStmt">>),
     P(11, "Stmt", <<"ContinueStmt">>),
     P(12, "Stmt", <<"ExprStmt">>),
     P(13, "VarDecl", <<"let", "identifier", "=", "Expr", ";">>),
     P(14, "VarDecl", <<"const", "identifier", "=", "Expr", ";">>),
     P(15, "VarDecl", <<"let", "identifier", ";">>),
     P(16, "FnDecl", <<"fn", "identifier", "(", "Params", ")", "{", "Block", "}">>),
     P(17, "Params", <<"ParamList">>),
     P(18, "Params", <<EPSILON>>),
     P(19, "ParamList", <<"identifier", ",", "ParamList">>),
     P(20, "ParamList", <<"identifier">>),
     P(21, "IfStmt", <<"if", "(", "Expr", ")", "{", "Block", "}">>),
     P(22, "IfStmt", <<"if", "(", "Expr", ")", "{", "Block", "}", "else", "{", "Block", "}">>),
     P(23, "WhileStmt", <<"while", "(", "Expr", ")", "{", "Block", "}">>),
     P(24, "ForStmt", <<"for", "(", "VarDecl", "Expr", ";", "Expr", ")", "{", "Block", "}">>),
     P(25, "ReturnStmt", <<"return", "Expr", ";">>),
     P(26, "BreakStmt", <<"break", ";">>),
     P(27, "ContinueStmt", <<"continue", ";">>),
     P(28, "ExprStmt", <<"Expr", ";">>),
     P(29, "Block", <<"StmtList">>),
     P(30, "Expr", <<"AssignExpr">>),
     P(31, "AssignExpr", <<"CompExpr", "=", "AssignExpr">>),
     P(32, "AssignExpr", <<"CompExpr">>),
     P(33, "CompExpr", <<"AddExpr", "op", "CompExpr">>),
     P(34, "CompExpr", <<"AddExpr">>),
     P(35, "AddExpr", <<"MultExpr", "op", "AddExpr">>),
     P(36, "AddExpr", <<"MultExpr">>),
     P(37, "MultExpr", <<"UnaryExpr", "op", "MultExpr">>),
     P(38, "MultExpr", <<"UnaryExpr">>),
     P(39, "UnaryExpr", <<"op", "UnaryExpr">>),
     P(40, "UnaryExpr", <<"CallExpr">>),
     P(41, "CallExpr", <<"MemberExpr", "(", "Args", ")", "CallExpr">>),
     P(42, "CallExpr", <<"MemberExpr", "(", "Args", ")">>),
     P(43, "CallExpr", <<"MemberExpr">>),
     P(44, "MemberExpr", <<"PrimaryExpr", ".", "identifier", "MemberExpr">>),
     P(45, "MemberExpr", <<"PrimaryExpr", "[", "Expr", "]", "MemberExpr">>),
     P(46, "MemberExpr", <<"PrimaryExpr">>),
     P(47, "PrimaryExpr", <<"identifier">>),
     P(48, "PrimaryExpr", <<"number">>),
     P(49, "PrimaryExpr", <<"string">>),
     P(50, "PrimaryExpr", <<"(", "Expr", ")">>),
     P(51, "PrimaryExpr", <<"ObjLiteral">>),
     P(52, "PrimaryExpr", <<"ArrayLiteral">>),
     P(53, "Args", <<"ArgList">>),
     P(54, "Args", <<EPSILON>>),
     P(55, "ArgList", <<"Expr", ",", "ArgList">>),
     P(56, "ArgList", <<"Expr">>),
     P(57, "ObjLiteral", <<"{", "PropList", "}">>),
     P(58, "PropList", <<"Prop", ",", "PropList">>),
     P(59, "PropList", <<"Prop">>),
     P(60, "PropList", <<EPSILON>>),
     P(61, "Prop", <<"identifier", ":", "Expr">>),
     P(62, "Prop", <<"identifier">>),
     P(63, "ArrayLiteral", <<"[", "Elements", "]">>),
     P(64, "Elements", <<"Expr", ",", "Elements">>),
     P(65, "Elements", <<"Expr">>),
     P(66, "Elements", <<EPSILON>>) >>,
   startSymbol |-> "Program"]

ll1Grammar ==
  [terminals |->
     <<"identifier", "number", "string", "print", ";", "(", ")", "=", "op", ",",
       END_MARKER>>,
   nonTerminals |->
     <<"Program", "StmtList", "Stmt", "PrintStmt", "AssignStmt", "ExprStmt",
       "Expr", "Term", "Factor", "ExprTail", "TermTail", "ArgList", "ArgListTail">>,
   productions |-> <<
     P(1, "Program", <<"StmtList">>),
     P(2, "StmtList", <<"Stmt", "StmtList">>),
     P(3, "StmtList", <<EPSILON>>),
     P(4, "Stmt", <<"PrintStmt">>),
     P(5, "Stmt", <<"AssignStmt">>),
     P(6, "Stmt", <<"ExprStmt">>),
     P(7, "PrintStmt", <<"print", "(", "Expr", ")", ";">>),
     P(8, "AssignStmt", <<"identifier", "=", "Expr", ";">>),
     P(9, "ExprStmt", <<"Expr", ";">>),
     P(10, "Expr", <<"Term", "ExprTail">>),
     P(11, "ExprTail", <<"op", "Term", "ExprTail">>),
     P(12, "ExprTail", <<EPSILON>>),
     P(13, "Term", <<"Factor", "TermTail">>),
     P(14, "TermTail", <<"op", "Factor", "TermTail">>),
     P(15, "TermTail", <<EPSILON>>),
     P(16, "Factor", <<"identifier">>),
     P(17, "Factor", <<"number">>),
     P(18, "Factor", <<"string">>),
     P(19, "Factor", <<"(", "Expr", ")">>),
     P(20, "Factor", <<"identifier", "(", "ArgList", ")">>),
     P(21, "ArgList", <<"Expr", "ArgListTail">>),
     P(22, "ArgList", <<EPSILON>>),
     P(23, "ArgListTail", <<",", "Expr", "ArgListTail">>),
     P(24, "ArgListTail", <<EPSILON>>) >>,
   startSymbol |-> "Program"]

(* ll_parser/grammar_utils.ts: the grammar of the first LL parser; its       *)
(* productions carry no id                                                  *)
Q(lhs, rhs) == [lhs |-> lhs, rhs |-> rhs]

grammarUtilsGrammar ==
  [terminals |->
     <<"let", "const", "identifier", "=", ";", "(", ")", "{", "}", "[", "]",
       ",", ":", ".", "number", "string", "fn", "if", "else", "while", "for",
       "return", "break", "continue", END_MARKER>>,
   nonTerminals |->
     <<"Program", "Stmt", "VarDeclaration", "FunctionDeclaration", "IfStatement",
       "WhileStatement", "ForStatement", "ReturnStatement", "BreakStatement",
       "ContinueStatement", "Expr", "Block">>,
   productions |-> <<
     Q("Program", <<"Stmt", "Program">>),
     Q("Program", <<EPSILON>>),
     Q("Stmt", <<"VarDeclaration">>),
     Q("Stmt", <<"FunctionDeclaration">>),
     Q("Stmt", <<"IfStatement">>),
     Q("Stmt", <<"WhileStatement">>),
     Q("Stmt", <<"ForStatement">>),
     Q("Stmt", <<"ReturnStatement">>),
     Q("Stmt", <<"BreakStatement">>),
     Q("Stmt", <<"ContinueStatement">>),
     Q("Stmt", <<"Expr", ";">>),
     Q("VarDeclaration", <<"let", "identifier", "=", "Expr", ";">>),
     Q("VarDeclaration", <<"const", "identifier", "=", "Expr", ";">>),
     Q("FunctionDeclaration", <<"fn", "identifier", "(", ")", "{", "Block", "}">>),
     Q("IfStatement", <<"if", "(", "Expr", ")", "{", "Block", "}">>),
     Q("IfStatement",
       <<"if", "(", "Expr", ")", "{", "Block", "}", "else", "{", "Block", "}">>),
     Q("WhileStatement", <<"while", "(", "Expr", ")", "{", "Block", "}">>),
     Q("ForStatement",
       <<"for", "(", "VarDeclaration", "Expr", ";", "Expr", ")", "{", "Block", "}">>),
     Q("ReturnStatement", <<"return", "Expr", ";">>),
     Q("BreakStatement", <<"break", ";">>),
     Q("ContinueStatement", <<"continue", ";">>),
     Q("Block", <<"Stmt", "Block">>),
     Q("Block", <<EPSILON>>),
     Q("Expr", <<"identifier">>),
     Q("Expr", <<"number">>),
     Q("Expr", <<"string">>),
     Q("Expr", <<"(", "Expr", ")">>),
     Q("Expr", <<"Expr", "+", "Expr">>),
     Q("Expr", <<"Expr", "-", "Expr">>),
     Q("Expr", <<"Expr", "*", "Expr">>),
     Q("Expr", <<"Expr", "/", "Expr">>),
     Q("Expr", <<"Expr", "%", "Expr">>),
     Q("Expr", <<"Expr", "==", "Expr">>),
     Q("Expr", <<"Expr", "!=", "Expr">>),
     Q("Expr", <<"Expr", ">", "Expr">>),
     Q("Expr", <<"Expr", "<", "Expr">>),
     Q("Expr", <<"Expr", ">=", "Expr">>),
     Q("Expr", <<"Expr", "<=", "Expr">>) >>,
   startSymbol |-> "Program"]

(* A family of small grammars of the Grammar type: every ordered choice of  *)
(* at most MaxProds distinct productions among the candidates below, over   *)
(* the nonterminals Expr (start) and Tail and the terminals identifier, op. *)
(* The candidates bring overlapping FIRST sets (conflicts), epsilon         *)
(* productions, nullable prefixes and left recursion.                       *)
CandidateProductions ==
  << [lhs |-> "Expr", rhs |-> <<"identifier", "Tail">>],
     [lhs |-> "Expr", rhs |-> <<"identifier">>],
     [lhs |-> "Expr", rhs |-> <<"Tail", "identifier">>],
     [lhs |-> "Expr", rhs |-> <<EPSILON>>],
     [lhs |-> "Expr", rhs |-> <<"Tail", "Tail">>],
     [lhs |-> "Tail", rhs |-> <<"op", "Expr">>],
     [lhs |-> "Tail", rhs |-> <<"op">>],
     [lhs |-> "Tail", rhs |-> <<EPSILON>>],
     [lhs |-> "Tail", rhs |-> <<"Expr", "op">>] >>

Choices ==
  UNION { { c \in [1..k -> 1..Len(CandidateProductions)] :
              \A i, j \in 1..k : i # j => c[i] # c[j] } : k \in 1..MaxProds }

SmallGrammar(c) ==
  [terminals |-> <<"identifier", "op", END_MARKER>>,
   nonTerminals |-> <<"Expr", "Tail">>,
   productions |->
     [i \in 1..Len(c) |->
        P(i, CandidateProductions[c[i]].lhs, CandidateProductions[c[i]].rhs)],
   startSymbol |-> "Expr"]

SmallGrammars == { SmallGrammar(c) : c \in Choices }

Grammars == SmallGrammars \cup {enhancedGrammar, ll1Grammar}

----------------------------------------------------------------------------
(* FIRST and FOLLOW sets: enhanced_ll_parser/first_follow.ts *)

AddAllWithEpsilon(s, t) == SetAddAll(s, t)

RECURSIVE AddAllButEpsilon(_, _)
AddAllButEpsilon(s, t) ==
  IF t = <<>> THEN s
  ELSE AddAllButEpsilon(IF Head(t) # EPSILON THEN SetAdd(s, Head(t)) ELSE s, Tail(t))

(* lines 12-32: the maps before the first pass *)
InitialFirstSets(g) ==
  [s \in Range(g.terminals) \cup Range(g.nonTerminals) \cup {EPSILON} |->
     IF SetHas(g.nonTerminals, s) THEN <<>>
     ELSE IF SetHas(g.terminals, s) THEN <<s>>
     ELSE <<EPSILON>>]

(* lines 54-75: the scan of a right-hand side from position i *)
RECURSIVE FirstScan(_, _, _, _)
FirstScan(fs, lhs, rhs, i) ==
  IF i > Len(rhs) THEN [sets |-> fs, allDeriveEpsilon |-> TRUE]
  ELSE LET symbolFirstSet == fs[rhs[i]]
           fs2 == [fs EXCEPT ![lhs] = AddAllButEpsilon(@, symbolFirstSet)]
       IN  IF ~SetHas(symbolFirstSet, EPSILON)
           THEN [sets |-> fs2, allDeriveEpsilon |-> FALSE]
           ELSE FirstScan(fs2, lhs, rhs, i + 1)

FirstOfProductionIntoRhs(fs, p) ==
  IF Len(p.rhs) = 1 /\ p.rhs[1] = EPSILON
  THEN [fs EXCEPT ![p.lhs] = SetAdd(@, EPSILON)]
  ELSE [FirstScan(fs, p.lhs, p.rhs, 1).sets EXCEPT ![p.rhs[1]] = SetAddAll(@, fs[p.lhs])]

FirstOfProductionSkipEpsilon(fs, p) ==
  IF Len(p.rhs) = 1 /\ p.rhs[1] = EPSILON
  THEN fs
  ELSE LET r == FirstScan(fs, p.lhs, p.rhs, 1)
       IN  IF r.allDeriveEpsilon
           THEN [r.sets EXCEPT ![p.lhs] = SetAdd(@, EPSILON)]
           ELSE r.sets

(* lines 39-85: the body of the loop over the productions *)
FirstOfProduction(fs, p) ==
  IF Len(p.rhs) = 1 /\ p.rhs[1] = EPSILON
  THEN [fs EXCEPT ![p.lhs] = SetAdd(@, EPSILON)]
  ELSE LET r == FirstScan(fs, p.lhs, p.rhs, 1)
       IN  IF r.allDeriveEpsilon
           THEN [r.sets EXCEPT ![p.lhs] = SetAdd(@, EPSILON)]
           ELSE r.sets

(* the `changed` tests of both loops compare set sizes; sets only grow *)
Grew(old, new) == \E s \in DOMAIN old : Len(new[s]) > Len(old[s])

PassChangedAlways(flag, old, new) == TRUE

PassChangedLastOnly(flag, old, new) == Grew(old, new)

(* `if (set.size > beforeSize) changed = true`: the flag is only ever raised *)
(* within a pass                                                            *)
PassChanged(flag, old, new) == flag \/ Grew(old, new)

(* lines 183-206 *)
RECURSIVE SequenceScan(_, _, _, _)
SequenceScan(result, sequence, fs, i) ==
  IF i > Len(sequence) THEN SetAdd(result, EPSILON)
  ELSE LET symbolFirstSet == fs[sequence[i]]
           r2 == AddAllButEpsilon(result, symbolFirstSet)
       IN  IF ~SetHas(symbolFirstSet, EPSILON) THEN r2
           ELSE SequenceScan(r2, sequence, fs, i + 1)

calculateFirstOfSequence(sequence, fs) ==
  IF Len(sequence) = 0 THEN <<EPSILON>>
  ELSE SequenceScan(<<>>, sequence, fs, 1)

InitialFollowSetsEmpty(g) == [s \in Range(g.nonTerminals) |-> <<>>]

(* lines 100-106 *)
InitialFollowSets(g) ==
  [s \in Range(g.nonTerminals) |->
     IF s = g.startSymbol THEN <<"$">> ELSE <<>>]

(* lines 117-161: the loop over the right-hand side of one production *)
RECURSIVE FollowScan(_, _, _, _, _)
FollowScan(fo, g, fs, p, i) ==
  IF i > Len(p.rhs) THEN fo
  ELSE LET symbol == p.rhs[i] IN
       IF ~SetHas(g.nonTerminals, symbol) THEN FollowScan(fo, g, fs, p, i + 1)
       ELSE IF i < Len(p.rhs)
       THEN LET firstOfRemaining ==
                  calculateFirstOfSequence(SubSeq(p.rhs, i + 1, Len(p.rhs)), fs)
                fo1 == [fo EXCEPT ![symbol] = AddAllButEpsilon(@, firstOfRemaining)]
                fo2 == IF SetHas(firstOfRemaining, EPSILON)
                       THEN [fo1 EXCEPT ![symbol] = SetAddAll(@, fo1[p.lhs])]
                       ELSE fo1
            IN  FollowScan(fo2, g, fs, p, i + 1)
       ELSE FollowScan([fo EXCEPT ![symbol] = SetAddAll(@, fo[p.lhs])], g, fs, p, i + 1)

FollowOfProduction(fo, g, fs, p) == FollowScan(fo, g, fs, p, 1)

----------------------------------------------------------------------------
(* The parse table: enhanced_ll_parser/parse_table.ts *)

InitialParseTableCached(g) ==
  IF run = 2 THEN prev.parseTable ELSE [nt \in Range(g.nonTerminals) |-> <<>>]

(* lines 18-23 *)
InitialParseTable(g) == [nt \in Range(g.nonTerminals) |-> <<>>]

(* lines 33-38, 44-53, 57-62: one loop over a set of terminals; a filled    *)
(* cell is warned about and then overwritten                                *)
RECURSIVE AssignAll(_, _, _, _)
AssignAll(tw, p, terminals, skipEpsilon) ==
  IF terminals = <<>> THEN tw
  ELSE LET terminal == Head(terminals) IN
       IF skipEpsilon /\ terminal = EPSILON
       THEN AssignAll(tw, p, Tail(terminals), skipEpsilon)
       ELSE AssignAll(
              [table |-> [tw.table EXCEPT ![p.lhs] = MapSet(@, terminal, p)],
               warns |-> IF MapHas(tw.table[p.lhs], terminal)
                         THEN Append(tw.warns, [lhs |-> p.lhs, terminal |-> terminal])
                         ELSE tw.warns],
              p, Tail(terminals), skipEpsilon)

TableOfProductionFirstOnly(tw, fs, fo, p) ==
  IF Len(p.rhs) = 1 /\ p.rhs[1] = EPSILON
  THEN AssignAll(tw, p, fo[p.lhs], FALSE)
  ELSE AssignAll(tw, p, calculateFirstOfSequence(p.rhs, fs), TRUE)

(* lines 26-65: the body of the loop over the productions *)
TableOfProduction(tw, fs, fo, p) ==
  IF Len(p.rhs) = 1 /\ p.rhs[1] = EPSILON
  THEN AssignAll(tw, p, fo[p.lhs], FALSE)
  ELSE LET firstOfRhs == calculateFirstOfSequence(p.rhs, fs)
           tw1 == AssignAll(tw, p, firstOfRhs, TRUE)
       IN  IF SetHas(firstOfRhs, EPSILON)
           THEN AssignAll(tw1, p, fo[p.lhs], FALSE)
           ELSE tw1

(* lines 130-143: scans the keys of every row for a repeated key *)
RECURSIVE RowHasRepeatedKey(_, _, _)
RowHasRepeatedKey(keys, i, terminalSet) ==
  IF i > Len(keys) THEN FALSE
  ELSE IF SetHas(terminalSet, keys[i]) THEN TRUE
  ELSE RowHasRepeatedKey(keys, i + 1, SetAdd(terminalSet, keys[i]))

isLL1(table, g) ==
  ~ \E nt \in DOMAIN table : RowHasRepeatedKey(MapKeys(table[nt]), 1, <<>>)

----------------------------------------------------------------------------
(* The analysis as a process: calculateFirstSets, calculateFollowSets,      *)
(* buildParseTable, isLL1 (analyzeGrammar of enhanced_ll_parser/index.ts),  *)
(* one production of a pass per step.                                       *)

NoPrev == [run |-> 0]

NoToken == [type |-> "none", value |-> ""]

NoError == [kind |-> "none"]

NoOutcome == [kind |-> "none"]

NoTree == [symbol |-> "null", children |-> <<>>, token |-> NoToken]

(* the fields of a parser instance before its first parse (lines 39-46) *)
(* runtime/values.ts lines 28-30; `value` holds the wrapped value, if any *)
MK_NULL == [type |-> "null", value |-> <<>>]

(* the interpreter has not been started *)
EvalIdle ==
  /\ block = <<>>
  /\ epc = "idle"
  /\ si = 0
  /\ lastResult = MK_NULL
  /\ loopValue = MK_NULL
  /\ blockResult = MK_NULL
  /\ iters = 0
  /\ updates = 0

ParserFresh ==
  /\ tokens = <<>>
  /\ currentTokenIndex = 0
  /\ stack = <<>>
  /\ nodeStack = <<>>
  /\ nodes = <<>>
  /\ parseTree = NoTree
  /\ thrown = NoError
  /\ outcome = NoOutcome
  /\ calls = 0
  /\ parserType = "none"

AnalysisStart(g) ==
  /\ grammar = g
  /\ firstSets = InitialFirstSets(g)
  /\ followSets = <<>>
  /\ parseTable = <<>>
  /\ warnings = <<>>
  /\ pc = "first"
  /\ pi = 1
  /\ changed = FALSE
  /\ run = 1
  /\ prev = NoPrev
  /\ isLL1Result = "none"

InitAnalysis ==
  /\ \E g \in Grammars : AnalysisStart(g)
  /\ ParserFresh
  /\ EvalIdle


NumProds == Len(grammar.productions)

FirstStep ==
  /\ pc = "first"
  /\ LET new == FirstOfProduction(firstSets, grammar.productions[pi])
         ch  == PassChanged(changed, firstSets, new)
     IN  /\ firstSets' = new
         /\ IF pi < NumProds
            THEN /\ pi' = pi + 1
                 /\ changed' = ch
                 /\ pc' = "first"
                 /\ followSets' = followSets
            ELSE /\ pi' = 1
                 /\ changed' = FALSE
                 /\ pc' = IF ch THEN "first" ELSE "follow"
                 /\ followSets' = IF ch THEN followSets ELSE InitialFollowSets(grammar)
  /\ UNCHANGED <<grammar, parseTable, warnings, run, prev, isLL1Result, parserVars>>
  /\ UNCHANGED evalVars

FollowStep ==
  /\ pc = "follow"
  /\ LET new == FollowOfProduction(followSets, grammar, firstSets, grammar.productions[pi])
         ch  == PassChanged(changed, followSets, new)
     IN  /\ followSets' = new
         /\ IF pi < NumProds
            THEN /\ pi' = pi + 1
                 /\ changed' = ch
                 /\ pc' = "follow"
                 /\ parseTable' = parseTable
            ELSE /\ pi' = 1
                 /\ changed' = FALSE
                 /\ pc' = IF ch THEN "follow" ELSE "table"
                 /\ parseTable' = IF ch THEN parseTable ELSE InitialParseTable(grammar)
  /\ UNCHANGED <<grammar, firstSets, warnings, run, prev, isLL1Result, parserVars>>
  /\ UNCHANGED evalVars

TableStep ==
  /\ pc = "table"
  /\ LET tw == TableOfProduction([table |-> parseTable, warns |-> warnings],
                                 firstSets, followSets, grammar.productions[pi])
     IN  /\ parseTable' = tw.table
         /\ warnings' = tw.warns
  /\ IF pi < NumProds
     THEN pi' = pi + 1 /\ pc' = "table"
     ELSE pi' = 1 /\ pc' = "built"
  /\ UNCHANGED <<grammar, firstSets, followSets, changed, run, prev, isLL1Result, parserVars>>
  /\ UNCHANGED evalVars

IsLL1Step ==
  /\ pc = "built"
  /\ isLL1Result' = isLL1(parseTable, grammar)
  /\ pc' = "checked"
  /\ UNCHANGED <<grammar, firstSets, followSets, parseTable, warnings, pi, changed,
                 run, prev, parserVars>>
  /\ UNCHANGED evalVars

(* a second analysis of the same grammar: every map is created anew *)
Reanalyse ==
  /\ pc = "checked"
  /\ run = 1
  /\ prev' = [run |-> run, firstSets |-> firstSets, followSets |-> followSets,
              parseTable |-> parseTable, warnings |-> warnings,
              isLL1Result |-> isLL1Result]
  /\ run' = 2
  /\ firstSets' = InitialFirstSets(grammar)
  /\ followSets' = <<>>
  /\ parseTable' = <<>>
  /\ warnings' = <<>>
  /\ pc' = "first"
  /\ pi' = 1
  /\ changed' = FALSE
  /\ isLL1Result' = "none"
  /\ UNCHANGED <<grammar, parserVars>>
  /\ UNCHANGED evalVars

NextAnalysis == FirstStep \/ FollowStep \/ TableStep \/ IsLL1Step \/ Reanalyse

SpecAnalysis == InitAnalysis /\ [][NextAnalysis]_vars

----------------------------------------------------------------------------
(* Properties of the analysis *)

RECURSIVE FullFirstPass(_, _, _)
FullFirstPass(fs, g, i) ==
  IF i > Len(g.productions) THEN fs
  ELSE FullFirstPass(FirstOfProduction(fs, g.productions[i]), g, i + 1)

RECURSIVE FullFollowPass(_, _, _, _)
FullFollowPass(fo, g, fs, i) ==
  IF i > Len(g.productions) THEN fo
  ELSE FullFollowPass(FollowOfProduction(fo, g, fs, g.productions[i]), g, fs, i + 1)

(* the terminals whose cell of row p.lhs buildParseTable assigns p to *)
Targets(p) ==
  Range(MapKeys(TableOfProduction([table |-> InitialParseTable(grammar), warns |-> <<>>],
                                  firstSets, followSets, p).table[p.lhs]))

(* some cell receives two productions of the grammar *)
ConflictExists ==
  \E i, j \in 1..NumProds :
     /\ i < j
     /\ grammar.productions[i].lhs = grammar.productions[j].lhs
     /\ Targets(grammar.productions[i]) \cap Targets(grammar.productions[j]) # {}

(* C2: while the table is built, a filled cell keeps the production it      *)
(* holds: a second production for the cell is reported as a conflict and    *)
(* the first entry is not overwritten.                                      *)
C2_FilledCellNotOverwritten ==
  [][pc = "table" =>
       \A nt \in DOMAIN parseTable :
          \A i \in 1..Len(parseTable[nt]) :
             /\ i <= Len(parseTable'[nt])
             /\ parseTable'[nt][i] = parseTable[nt][i]]_vars

(* C3: isLL1 of the built table is true exactly when no cell received more  *)
(* than one production during construction.                                 *)
C3_IsLL1IffNoConflict ==
  pc = "checked" => (isLL1Result <=> ~ConflictExists)

C10_FixedPoint ==
  /\ pc \in {"follow", "table", "built", "checked"} =>
        FullFirstPass(firstSets, grammar, 1) = firstSets
  /\ pc \in {"table", "built", "checked"} =>
        FullFollowPass(followSets, grammar, firstSets, 1) = followSets

C10_Witness ==
  /\ pc = "checked"
  /\ \E nt \in DOMAIN followSets :
        /\ SetHas(firstSets[nt], EPSILON)
        /\ Len(firstSets[nt]) > 1
        /\ Len(followSets[nt]) > 1

AnalysisDone == pc \in {"built", "checked"}

FirstDone == pc \in {"follow", "table", "built", "checked"}

FollowDone == pc \in {"table", "built", "checked"}

(* the structure a Grammar is meant to have *)
WellFormed(g) ==
  /\ Range(g.terminals) \cap Range(g.nonTerminals) = {}
  /\ SetHas(g.nonTerminals, g.startSymbol)
  /\ \A i \in 1..Len(g.productions) :
        /\ SetHas(g.nonTerminals, g.productions[i].lhs)
        /\ \A k \in 1..Len(g.productions[i].rhs) :
              g.productions[i].rhs[k] \in
                Range(g.terminals) \cup Range(g.nonTerminals) \cup {EPSILON}

(* C11: FIRST(t) is the singleton {t} for every terminal t of the grammar,  *)
(* before, during and after the passes of the FIRST loop.                   *)
C11_TerminalFirstIsSingleton ==
  \A i \in 1..Len(grammar.terminals) :
     firstSets[grammar.terminals[i]] = <<grammar.terminals[i]>>

C11_Witness ==
  /\ pc = "checked"
  /\ \E nt \in Range(grammar.nonTerminals) :
        /\ Len(firstSets[nt]) > 1
        /\ \E i \in 1..NumProds :
              /\ grammar.productions[i].lhs = nt
              /\ SetHas(grammar.terminals, grammar.productions[i].rhs[1])

(* C12: once the FIRST loop has ended, epsilon is in FIRST(A) for every     *)
(* nonterminal A that has a production whose right-hand side is [epsilon].  *)
C12_EpsilonProductionGivesEpsilon ==
  FirstDone =>
    \A i \in 1..NumProds :
       grammar.productions[i].rhs = <<EPSILON>> =>
          SetHas(firstSets[grammar.productions[i].lhs], EPSILON)

C12_Witness ==
  /\ pc = "checked"
  /\ \E i \in 1..NumProds :
        /\ grammar.productions[i].rhs = <<EPSILON>>
        /\ Len(firstSets[grammar.productions[i].lhs]) > 1
  /\ \E nt \in Range(grammar.nonTerminals) : ~SetHas(firstSets[nt], EPSILON)

(* C13: from the start of the FOLLOW loop on, FOLLOW(start symbol) holds    *)
(* the end marker.                                                          *)
C13_StartFollowHasEndMarker ==
  (pc = "follow" \/ FollowDone) => SetHas(followSets[grammar.startSymbol], END_MARKER)

C13_Witness ==
  /\ pc = "checked"
  /\ Len(followSets[grammar.startSymbol]) > 1
  /\ followSets[grammar.startSymbol][1] = END_MARKER

(* C16: the grammar under analysis and the grammar of                       *)
(* ll_parser/grammar_utils.ts are well formed: disjoint terminal and        *)
(* nonterminal sets, a nonterminal start symbol, nonterminal left-hand      *)
(* sides, and right-hand sides over terminals, nonterminals and epsilon.    *)
C16_GrammarsWellFormed ==
  /\ WellFormed(grammar)
  /\ WellFormed(grammarUtilsGrammar)

(* C17: the table built for ll1Grammar has no cell that two productions     *)
(* were assigned to.                                                        *)
C17_LL1GrammarHasNoConflict ==
  (grammar = ll1Grammar /\ AnalysisDone) => (warnings = <<>> /\ ~ConflictExists)

(* FIRST of a sequence of symbols by the rule: the FIRST sets, without     *)
(* epsilon, of the symbols that only nullable symbols precede, and epsilon  *)
(* when every symbol is nullable.  F maps a symbol to a set.                *)
SeqFirst(F, alpha) ==
  UNION {F[alpha[i]] \ {EPSILON} :
           i \in {k \in 1..Len(alpha) : \A j \in 1..(k - 1) : EPSILON \in F[alpha[j]]}}
    \cup (IF \A j \in 1..Len(alpha) : EPSILON \in F[alpha[j]] THEN {EPSILON} ELSE {})

ComputedFirst == [s \in DOMAIN firstSets |-> Range(firstSets[s])]

(* production p predicts terminal t, by the computed sets *)
Predicts(p, t) ==
  \/ t \in SeqFirst(ComputedFirst, p.rhs) \ {EPSILON}
  \/ /\ t \in Range(followSets[p.lhs])
     /\ (p.rhs = <<EPSILON>> \/ EPSILON \in SeqFirst(ComputedFirst, p.rhs))

(* C19: in the built table a cell [A][t] is filled exactly when some        *)
(* production of A predicts t; the production in a filled cell is a         *)
(* production of A that predicts t; epsilon is the key of no cell.          *)
C19_TableCellsArePredictions ==
  AnalysisDone =>
    \A A \in DOMAIN parseTable :
       /\ \A t \in Range(grammar.terminals) \cup {EPSILON}
                   \cup Range(MapKeys(parseTable[A])) :
             MapHas(parseTable[A], t) <=>
               \E i \in 1..NumProds :
                  grammar.productions[i].lhs = A /\ Predicts(grammar.productions[i], t)
       /\ \A k \in 1..Len(parseTable[A]) :
             /\ parseTable[A][k].key # EPSILON
             /\ parseTable[A][k].val \in Range(grammar.productions)
             /\ parseTable[A][k].val.lhs = A
             /\ Predicts(parseTable[A][k].val, parseTable[A][k].key)

(* a cell filled from FOLLOW by a production whose right-hand side is       *)
(* nullable without being [epsilon]                                         *)
C19_Witness ==
  /\ pc = "checked"
  /\ \E A \in DOMAIN parseTable : \E k \in 1..Len(parseTable[A]) :
        /\ parseTable[A][k].val.rhs # <<EPSILON>>
        /\ parseTable[A][k].key \notin SeqFirst(ComputedFirst, parseTable[A][k].val.rhs)

(* the least FIRST sets: the rules applied to all productions at once,      *)
(* from the singletons of the terminals and of epsilon and the empty sets   *)
(* of the nonterminals, until nothing is added                              *)
FirstRound(g, F) ==
  [s \in DOMAIN F |->
     F[s] \cup UNION {SeqFirst(F, g.productions[i].rhs) :
                       i \in {k \in 1..Len(g.productions) : g.productions[k].lhs = s}}]

RECURSIVE FirstClosure(_, _)
FirstClosure(g, F) ==
  IF FirstRound(g, F) = F THEN F ELSE FirstClosure(g, FirstRound(g, F))

LeastFirst(g) ==
  FirstClosure(g, [s \in Range(g.terminals) \cup Range(g.nonTerminals) \cup {EPSILON} |->
                     IF SetHas(g.nonTerminals, s) THEN {} ELSE {s}])

(* the least FOLLOW sets over the FIRST sets FI: for every occurrence of B   *)
(* in A -> alpha B beta, FIRST(beta) without epsilon, and FOLLOW(A) when     *)
(* beta is empty or nullable                                                *)
FollowRound(g, FI, FO) ==
  [B \in DOMAIN FO |->
     FO[B] \cup
       UNION {LET p == g.productions[o[1]]
                  beta == SubSeq(p.rhs, o[2] + 1, Len(p.rhs))
              IN  (SeqFirst(FI, beta) \ {EPSILON})
                    \cup (IF EPSILON \in SeqFirst(FI, beta) THEN FO[p.lhs] ELSE {}) :
              o \in {x \in UNION {{<<k, j>> : j \in 1..Len(g.productions[k].rhs)} :
                                      k \in 1..Len(g.productions)} :
                       g.productions[x[1]].rhs[x[2]] = B}}]

RECURSIVE FollowClosure(_, _, _)
FollowClosure(g, FI, FO) ==
  IF FollowRound(g, FI, FO) = FO THEN FO
  ELSE FollowClosure(g, FI, FollowRound(g, FI, FO))

LeastFollow(g) ==
  FollowClosure(g, LeastFirst(g),
                [B \in Range(g.nonTerminals) |->
                   IF B = g.startSymbol THEN {END_MARKER} ELSE {}])

(* C20: the FIRST and FOLLOW sets the analysis ends with are the least sets *)
(* closed under the rules, and no FOLLOW set holds epsilon.                 *)
C20_SetsAreLeastSolution ==
  pc = "checked" =>
    /\ [s \in DOMAIN firstSets |-> Range(firstSets[s])] = LeastFirst(grammar)
    /\ [B \in DOMAIN followSets |-> Range(followSets[B])] = LeastFollow(grammar)
    /\ \A B \in DOMAIN followSets : EPSILON \notin Range(followSets[B])

C20_Witness ==
  /\ pc = "checked"
  /\ \E B \in DOMAIN followSets :
        /\ B # grammar.startSymbol
        /\ SetHas(followSets[B], END_MARKER)
        /\ Len(followSets[B]) > 1
        /\ SetHas(firstSets[B], EPSILON)
  /\ \E s \in Range(grammar.nonTerminals) : ~SetHas(firstSets[s], EPSILON)

(* the loops as code that keeps running: weak fairness of the steps of the   *)
(* two loops.  A step of a loop is enabled exactly while pc is at the loop, *)
(* so WF_v(FirstStep) is written with that state predicate in the place of  *)
(* ENABLED <<FirstStep>>_v, and likewise for FollowStep.                    *)
NextSolve == FirstStep \/ FollowStep \/ TableStep

LoopFairness ==
  /\ []<>(pc # "first") \/ []<><<FirstStep>>_<<pc, pi, firstSets>>
  /\ []<>(pc # "follow") \/ []<><<FollowStep>>_<<pc, pi, followSets>>

SpecAnalysisFair == InitAnalysis /\ [][NextSolve]_vars /\ LoopFairness

Alphabet == Range(grammar.terminals) \cup {EPSILON}

SetsWithinAlphabet ==
  /\ \A s \in DOMAIN firstSets : Range(firstSets[s]) \subseteq Alphabet
  /\ \A s \in DOMAIN followSets : Range(followSets[s]) \subseteq Alphabet

(* a step inside a loop takes nothing out of a set *)
SetsOnlyGrow ==
  /\ (pc = "first" /\ pc' \in {"first", "follow"}) =>
        \A s \in DOMAIN firstSets : Range(firstSets[s]) \subseteq Range(firstSets'[s])
  /\ (pc = "follow" /\ pc' \in {"follow", "table"}) =>
        \A s \in DOMAIN followSets : Range(followSets[s]) \subseteq Range(followSets'[s])

(* the flag of a pass is raised exactly by the steps that change a set, and  *)
(* the step of the last production leaves the loop exactly when the flag is *)
(* down and the step itself changes nothing; otherwise a new pass begins    *)
PassRule(loop, after, sets, setsNext) ==
  pc = loop =>
    IF pi < NumProds
    THEN /\ pc' = loop /\ pi' = pi + 1
         /\ changed' <=> (changed \/ setsNext # sets)
    ELSE /\ pc' = after <=> (~changed /\ setsNext = sets)
         /\ pc' # after => (pc' = loop /\ pi' = 1 /\ ~changed')

(* C21: the FIRST loop and the FOLLOW loop end: every set only grows within *)
(* terminals and epsilon, a pass begins with the flag down, and a loop is   *)
(* left after the first full pass over the productions that changed no set. *)
C21_LoopsTerminate ==
  /\ []SetsWithinAlphabet
  /\ []((pc \in {"first", "follow"} /\ pi = 1) => ~changed)
  /\ [][SetsOnlyGrow]_vars
  /\ [][PassRule("first", "follow", firstSets, firstSets')]_vars
  /\ [][PassRule("follow", "table", followSets, followSets')]_vars
  /\ (pc = "first") ~> (pc = "follow")
  /\ (pc = "follow") ~> (pc = "table")

(* a loop that needed a pass after a pass that grew a set, and ended *)
C21_Witness ==
  /\ pc = "follow" /\ pi = NumProds /\ changed
  /\ \E s \in DOMAIN firstSets : Len(firstSets[s]) > 2

----------------------------------------------------------------------------
(* Tokens: frontend/lexer.ts; their terminals: enhanced_ll_parser/grammar.ts *)

Tok(type, value) == [type |-> type, value |-> value]

EOFToken == Tok("EOF", "EndOfFile")

tokenTypeToTerminal(type) ==
  CASE type = "Let" -> "let"
    [] type = "Const" -> "const"
    [] type = "Identifier" -> "identifier"
    [] type = "Equals" -> "="
    [] type = "Semicolon" -> ";"
    [] type = "OpenParen" -> "("
    [] type = "CloseParen" -> ")"
    [] type = "OpenBrace" -> "{"
    [] type = "CloseBrace" -> "}"
    [] type = "OpenBracket" -> "["
    [] type = "CloseBracket" -> "]"
    [] type = "Comma" -> ","
    [] type = "Colon" -> ":"
    [] type = "Dot" -> "."
    [] type = "Number" -> "number"
    [] type = "String" -> "string"
    [] type = "Fn" -> "fn"
    [] type = "If" -> "if"
    [] type = "Else" -> "else"
    [] type = "While" -> "while"
    [] type = "For" -> "for"
    [] type = "Return" -> "return"
    [] type = "Break" -> "break"
    [] type = "Continue" -> "continue"
    [] type = "BinaryOperator" -> "op"
    [] type = "EOF" -> END_MARKER
    [] OTHER -> type

----------------------------------------------------------------------------
(* The predictive parse loop: EnhancedLLParser.buildParseTree.               *)
(* An engine state e is [stack, nodeStack, nodes, index, thrown, done];     *)
(* done is the break of line 114.                                           *)

ParseNode(symbol) == [symbol |-> symbol, children |-> <<>>, token |-> NoToken]

(* lines 91-100 *)
SeededEngine(g) ==
  [stack |-> <<END_MARKER, g.startSymbol>>,
   nodeStack |-> <<1>>,
   nodes |-> <<ParseNode(g.startSymbol)>>,
   index |-> 0,
   thrown |-> NoError,
   done |-> FALSE]

Pop(s) == SubSeq(s, 1, Len(s) - 1)

Top(s) == s[Len(s)]

(* the error messages of lines 116, 133-135, 145, 151-153, 159, 186: what    *)
(* was on the stack, the text of the current token, and the token index     *)
(* when the message carries one                                             *)
ParseError(kind, top, got, positioned, position) ==
  [kind |-> kind, top |-> top, got |-> got,
   positioned |-> positioned, position |-> IF positioned THEN position ELSE 0]

LoopConditionBeforeEOF(e, toks) == Len(e.stack) > 0 /\ e.index < Len(toks) - 1

(* lines 103: the condition of the while loop *)
LoopCondition(e, toks) == Len(e.stack) > 0 /\ e.index < Len(toks)

RECURSIVE PushRhsAppend(_, _, _, _)
PushRhsAppend(e, node, rhs, i) ==
  IF i < 1 THEN e
  ELSE IF rhs[i] = EPSILON THEN PushRhsAppend(e, node, rhs, i - 1)
  ELSE LET child == Len(e.nodes) + 1
           nodes1 == Append(e.nodes, ParseNode(rhs[i]))
       IN  PushRhsAppend([e EXCEPT !.stack = Append(@, rhs[i]),
                                  !.nodes = [nodes1 EXCEPT ![node].children = @ \o <<child>>],
                                  !.nodeStack = Append(@, child)],
                         node, rhs, i - 1)

(* lines 163-180: push the right-hand side from its last symbol to its      *)
(* first; every pushed symbol gets a new node, put in front of the children *)
RECURSIVE PushRhs(_, _, _, _)
PushRhs(e, node, rhs, i) ==
  IF i < 1 THEN e
  ELSE IF rhs[i] = EPSILON THEN PushRhs(e, node, rhs, i - 1)
  ELSE LET child == Len(e.nodes) + 1
           nodes1 == Append(e.nodes, ParseNode(rhs[i]))
       IN  PushRhs([e EXCEPT !.stack = Append(@, rhs[i]),
                            !.nodes = [nodes1 EXCEPT ![node].children = <<child>> \o @],
                            !.nodeStack = Append(@, child)],
                   node, rhs, i - 1)

(* lines 110-117: the end marker is on top *)
CheckEndMarker(e, top, currentToken) ==
  IF currentToken.type = "EOF"
  THEN [e EXCEPT !.stack = Pop(@), !.done = TRUE]
  ELSE [e EXCEPT !.thrown =
          ParseError("ExpectedEndOfInput", top, currentToken.value, FALSE, 0)]

MatchTerminalNoToken(e, top, currentToken, currentTerminal) ==
  IF top = currentTerminal \/ (top = "op" /\ currentToken.type = "BinaryOperator")
  THEN [e EXCEPT !.stack = Pop(@),
                 !.index = @ + 1,
                 !.nodeStack = IF Len(@) > 0 THEN Pop(@) ELSE @]
  ELSE [e EXCEPT !.thrown =
          ParseError("TerminalMismatch", top, currentToken.value, TRUE, e.index)]

MatchTerminalKeepNode(e, top, currentToken, currentTerminal) ==
  IF top = currentTerminal \/ (top = "op" /\ currentToken.type = "BinaryOperator")
  THEN [e EXCEPT !.stack = Pop(@),
                 !.index = @ + 1,
                 !.nodes = IF Len(e.nodeStack) > 0
                           THEN [@ EXCEPT ![Top(e.nodeStack)].token = currentToken]
                           ELSE @]
  ELSE [e EXCEPT !.thrown =
          ParseError("TerminalMismatch", top, currentToken.value, TRUE, e.index)]

MatchTerminalExactOnly(e, top, currentToken, currentTerminal) ==
  IF top = currentToken.value
  THEN [e EXCEPT !.stack = Pop(@),
                 !.index = @ + 1,
                 !.nodeStack = IF Len(@) > 0 THEN Pop(@) ELSE @,
                 !.nodes = IF Len(e.nodeStack) > 0
                           THEN [@ EXCEPT ![Top(e.nodeStack)].token = currentToken]
                           ELSE @]
  ELSE [e EXCEPT !.thrown =
          ParseError("TerminalMismatch", top, currentToken.value, TRUE, e.index)]

(* lines 118-136: a terminal is on top *)
MatchTerminal(e, top, currentToken, currentTerminal) ==
  IF top = currentTerminal \/ (top = "op" /\ currentToken.type = "BinaryOperator")
  THEN [e EXCEPT !.stack = Pop(@),
                 !.index = @ + 1,
                 !.nodeStack = IF Len(@) > 0 THEN Pop(@) ELSE @,
                 !.nodes = IF Len(e.nodeStack) > 0
                           THEN [@ EXCEPT ![Top(e.nodeStack)].token = currentToken]
                           ELSE @]
  ELSE [e EXCEPT !.thrown =
          ParseError("TerminalMismatch", top, currentToken.value, TRUE, e.index)]

(* lines 137-181: a nonterminal is on top; popped is e after line 140 *)
ExpandNonTerminal(e, popped, top, table, currentToken, currentTerminal) ==
  IF top \notin DOMAIN table
  THEN [popped EXCEPT !.thrown =
          ParseError("NoTableRow", top, currentToken.value, FALSE, 0)]
  ELSE IF ~MapHas(table[top], currentTerminal)
  THEN [popped EXCEPT !.thrown =
          ParseError("UnexpectedToken", top, currentToken.value, FALSE, 0)]
  ELSE IF Len(e.nodeStack) = 0
  THEN [popped EXCEPT !.thrown =
          ParseError("NodeStackUnderflow", top, currentToken.value, FALSE, 0)]
  ELSE PushRhs([popped EXCEPT !.nodeStack = Pop(@)], Top(e.nodeStack),
               MapGet(table[top], currentTerminal).rhs,
               Len(MapGet(table[top], currentTerminal).rhs))

(* lines 104-181: one iteration of the loop *)
LoopStep(e, table, g, toks) ==
  LET top == Top(e.stack)
      currentToken == toks[e.index + 1]
      currentTerminal == tokenTypeToTerminal(currentToken.type)
  IN
  IF top = END_MARKER
  THEN CheckEndMarker(e, top, currentToken)
  ELSE IF SetHas(g.terminals, top)
  THEN MatchTerminal(e, top, currentToken, currentTerminal)
  ELSE ExpandNonTerminal(e, [e EXCEPT !.stack = Pop(@)], top, table,
                         currentToken, currentTerminal)

(* the tree below node n, as the value `root` of line 189 *)
RECURSIVE Tree(_, _)
Tree(ns, n) ==
  [symbol |-> ns[n].symbol,
   children |-> [i \in 1..Len(ns[n].children) |-> Tree(ns, ns[n].children[i])],
   token |-> ns[n].token]

----------------------------------------------------------------------------
(* The parse-tree-to-AST converter: EnhancedLLParser.buildAST and the        *)
(* process* methods.  A parse-tree node is [symbol, children, token].       *)
(* Undefined is what indexing an array past its end yields; reading a       *)
(* property of it throws a TypeError, which is the result Fail.             *)

Undefined == [symbol |-> "undefined", children |-> <<>>, token |-> NoToken]

Child(node, i) == IF i < Len(node.children) THEN node.children[i + 1] ELSE Undefined

Ok(v) == [ok |-> TRUE, val |-> v]

Fail == [ok |-> FALSE, val |-> <<>>]

NullStmt == [kind |-> "null"]

UndefinedValue == [kind |-> "undefined"]

(* parseFloat on the texts of the number tokens of the model *)
parseFloat(text) ==
  CASE text = "1" -> 1
    [] text = "2" -> 2
    [] text = "5" -> 5
    [] text = "10" -> 10
    [] OTHER -> 0

IdentifierExpr(symbol) == [kind |-> "Identifier", symbol |-> symbol]

BinaryExpr(left, right, operator) ==
  [kind |-> "BinaryExpr", left |-> left, right |-> right, operator |-> operator]

CallExpr(caller, args) == [kind |-> "CallExpr", caller |-> caller, args |-> args]

MemberExpr(object, property, computed) ==
  [kind |-> "MemberExpr", object |-> object, property |-> property,
   computed |-> computed]

ExpressionStatement(expression) ==
  [kind |-> "ExpressionStatement", expression |-> expression]

Program(body) == [kind |-> "Program", body |-> body]

(* the value a method builds from the values its calls returned, unless    *)
(* one of them threw                                                        *)
Lift1(a, F(_)) == IF a.ok THEN Ok(F(a.val)) ELSE Fail

Lift2(a, b, F(_, _)) == IF a.ok /\ b.ok THEN Ok(F(a.val, b.val)) ELSE Fail

Lift3(a, b, c, F(_, _, _)) ==
  IF a.ok /\ b.ok /\ c.ok THEN Ok(F(a.val, b.val, c.val)) ELSE Fail

Lift4(a, b, c, d, F(_, _, _, _)) ==
  IF a.ok /\ b.ok /\ c.ok /\ d.ok THEN Ok(F(a.val, b.val, c.val, d.val)) ELSE Fail

RECURSIVE processStmtList(_), processStmt(_), processVarDecl(_), processFnDecl(_),
          processParamList(_), processIfStmt(_), processWhileStmt(_),
          processForStmt(_), processReturnStmt(_), processExprStmt(_),
          processBlock(_), processAssignExpr(_), processCompExpr(_),
          processAddExpr(_), processMultExpr(_), processUnaryExpr(_),
          processCallExpr(_), processMemberExpr(_), processPrimaryExpr(_),
          processArgs(_), processArgList(_), processObjLiteral(_),
          processPropList(_), processProp(_), processArrayLiteral(_),
          processElements(_), findNode(_, _), findNodeIn(_, _, _)

(* lines 222-235 *)
findNode(node, symbol) ==
  IF node.symbol = symbol THEN node ELSE findNodeIn(node.children, symbol, 1)

FirstFound(found, others) == IF found # Undefined THEN found ELSE others

findNodeIn(children, symbol, i) ==
  IF i > Len(children) THEN Undefined
  ELSE FirstFound(findNode(children[i], symbol), findNodeIn(children, symbol, i + 1))

(* lines 242-263 *)
processStmtList(node) ==
  IF node = Undefined THEN Fail
  ELSE IF Len(node.children) = 0 THEN Ok(<<>>)
  ELSE Lift2(IF Child(node, 0).symbol = "Stmt" THEN processStmt(Child(node, 0))
             ELSE Ok(NullStmt),
             IF Child(node, 1) # Undefined /\ Child(node, 1).symbol = "StmtList"
             THEN processStmtList(Child(node, 1)) ELSE Ok(<<>>),
             LAMBDA statement, rest :
               (IF statement = NullStmt THEN <<>> ELSE <<statement>>) \o rest)

(* lines 270-298 *)
processStmt(node) ==
  IF Len(node.children) = 0 THEN Ok(NullStmt)
  ELSE LET firstChild == Child(node, 0) IN
       CASE firstChild.symbol = "VarDecl" -> processVarDecl(firstChild)
         [] firstChild.symbol = "FnDecl" -> processFnDecl(firstChild)
         [] firstChild.symbol = "IfStmt" -> processIfStmt(firstChild)
         [] firstChild.symbol = "WhileStmt" -> processWhileStmt(firstChild)
         [] firstChild.symbol = "ForStmt" -> processForStmt(firstChild)
         [] firstChild.symbol = "ReturnStmt" -> processReturnStmt(firstChild)
         [] firstChild.symbol = "BreakStmt" -> Ok([kind |-> "BreakStatement"])
         [] firstChild.symbol = "ContinueStmt" -> Ok([kind |-> "ContinueStatement"])
         [] firstChild.symbol = "ExprStmt" -> processExprStmt(firstChild)
         [] OTHER -> Ok(NullStmt)

(* lines 302-322 *)
processVarDecl(node) ==
  IF node = Undefined \/ Child(node, 0) = Undefined \/ Child(node, 1) = Undefined
  THEN Fail
  ELSE Lift1(IF Len(node.children) > 3 /\ Child(node, 2).symbol = "="
             THEN processAssignExpr(Child(node, 3))
             ELSE Ok(UndefinedValue),
             LAMBDA value :
               [kind |-> "VarDeclaration",
                constant |-> Child(node, 0).symbol = "const",
                identifier |-> Child(node, 1).token.value,
                value |-> value])

(* lines 353-366 *)
processParamList(node) ==
  IF node = Undefined \/ Child(node, 0) = Undefined THEN Fail
  ELSE IF Len(node.children) > 1
  THEN IF Child(node, 2) = Undefined THEN Fail
       ELSE IF Child(node, 2).symbol = "ParamList"
       THEN Lift1(processParamList(Child(node, 2)),
                  LAMBDA more : <<Child(node, 0).token.value>> \o more)
       ELSE Ok(<<Child(node, 0).token.value>>)
  ELSE Ok(<<Child(node, 0).token.value>>)

(* lines 343-351 *)
processParams(node) ==
  IF node = Undefined THEN Fail
  ELSE IF Len(node.children) = 0 THEN Ok(<<>>)
  ELSE processParamList(Child(node, 0))

(* lines 324-341 *)
processFnDecl(node) ==
  IF Child(node, 1) = Undefined THEN Fail
  ELSE Lift2(processParams(Child(node, 3)), processBlock(Child(node, 6)),
             LAMBDA parameters, body :
               [kind |-> "FunctionDeclaration",
                name |-> Child(node, 1).token.value,
                parameters |-> parameters,
                body |-> body])

(* lines 368-389 *)
processIfStmt(node) ==
  Lift3(processAssignExpr(Child(node, 2)),
        processBlock(Child(node, 5)),
        IF Len(node.children) > 7 /\ Child(node, 7).symbol = "else"
        THEN processBlock(Child(node, 9))
        ELSE Ok(UndefinedValue),
        LAMBDA condition, thenStmts, elseStmts :
          [kind |-> "IfStatement", condition |-> condition,
           then |-> thenStmts, else |-> elseStmts])

(* lines 391-404 *)
processWhileStmt(node) ==
  Lift2(processAssignExpr(Child(node, 2)), processBlock(Child(node, 5)),
        LAMBDA condition, body :
          [kind |-> "WhileStatement", condition |-> condition, body |-> body])

(* lines 406-427 *)
processForStmt(node) ==
  Lift4(processVarDecl(Child(node, 2)), processAssignExpr(Child(node, 3)),
        processAssignExpr(Child(node, 5)), processBlock(Child(node, 8)),
        LAMBDA init, condition, update, body :
          [kind |-> "ForStatement", init |-> init, condition |-> condition,
           update |-> update, body |-> body])

(* lines 429-438 *)
processReturnStmt(node) ==
  Lift1(processAssignExpr(Child(node, 1)),
        LAMBDA value : [kind |-> "ReturnStatement", value |-> value])

(* lines 454-463 *)
processExprStmt(node) ==
  Lift1(processAssignExpr(Child(node, 0)), ExpressionStatement)

(* lines 465-469 *)
processBlock(node) ==
  IF node = Undefined THEN Fail ELSE processStmtList(Child(node, 0))

(* the three binary levels: with three children and an "op" in the middle  *)
(* the BinaryExpr of the first child and of the rest, else the first child  *)
(* alone; first and rest are the results of the two calls                   *)
BinaryOf(node, first, rest) ==
  IF Len(node.children) = 3 /\ Child(node, 1).symbol = "op"
  THEN Lift2(first, rest,
             LAMBDA left, right : BinaryExpr(left, right, Child(node, 1).token.value))
  ELSE first

(* lines 476-493, with the results of the two calls *)
AssignOf(node, first, rest) ==
  IF Len(node.children) = 3 /\ Child(node, 1).symbol = "="
  THEN Lift2(first, rest,
             LAMBDA assigne, value :
               [kind |-> "AssignmentExpr", assigne |-> assigne, value |-> value])
  ELSE first

(* lines 471-474: processExpr is processAssignExpr; lines 476-493 *)
processAssignExpr(node) ==
  IF node = Undefined THEN Fail
  ELSE AssignOf(node, processCompExpr(Child(node, 0)), processAssignExpr(Child(node, 2)))

(* lines 495-515 *)
processCompExpr(node) ==
  IF node = Undefined THEN Fail
  ELSE BinaryOf(node, processAddExpr(Child(node, 0)), processCompExpr(Child(node, 2)))

(* lines 517-537 *)
processAddExpr(node) ==
  IF node = Undefined THEN Fail
  ELSE BinaryOf(node, processMultExpr(Child(node, 0)), processAddExpr(Child(node, 2)))

(* lines 539-559 *)
processMultExpr(node) ==
  IF node = Undefined THEN Fail
  ELSE BinaryOf(node, processUnaryExpr(Child(node, 0)), processMultExpr(Child(node, 2)))

(* lines 561-569 *)
processUnaryExpr(node) ==
  IF node = Undefined THEN Fail
  ELSE processCallExpr(Child(node, IF Len(node.children) = 2 /\ Child(node, 0).symbol = "op"
                                   THEN 1 ELSE 0))

(* lines 571-601, with the results of the two calls *)
CallOf(node, member, arguments) ==
  IF Len(node.children) >= 4 /\ Child(node, 1).symbol = "("
  THEN Lift2(member, arguments,
             LAMBDA caller, args :
               IF Len(node.children) > 4 /\ Child(node, 4).symbol = "CallExpr"
               THEN CallExpr(CallExpr(caller, args), <<>>)
               ELSE CallExpr(caller, args))
  ELSE member

processCallExpr(node) ==
  IF node = Undefined THEN Fail
  ELSE CallOf(node, processMemberExpr(Child(node, 0)), processArgs(Child(node, 2)))

(* lines 603-668, with the results of the two calls *)
MemberOf(node, object, index) ==
  IF Len(node.children) > 1 /\ Child(node, 1).symbol = "."
  THEN IF Child(node, 2) = Undefined THEN Fail
       ELSE Lift1(object,
                  LAMBDA primary :
                    IF Len(node.children) > 3 /\ Child(node, 3).symbol = "MemberExpr"
                    THEN MemberExpr(
                           MemberExpr(primary,
                                      IdentifierExpr(Child(node, 2).token.value), FALSE),
                           IdentifierExpr(""), FALSE)
                    ELSE MemberExpr(primary,
                                    IdentifierExpr(Child(node, 2).token.value), FALSE))
  ELSE IF Len(node.children) > 1 /\ Child(node, 1).symbol = "["
  THEN Lift2(object, index,
             LAMBDA primary, expression :
               IF Len(node.children) > 4 /\ Child(node, 4).symbol = "MemberExpr"
               THEN MemberExpr(MemberExpr(primary, expression, TRUE),
                               IdentifierExpr(""), FALSE)
               ELSE MemberExpr(primary, expression, TRUE))
  ELSE object

processMemberExpr(node) ==
  IF node = Undefined THEN Fail
  ELSE MemberOf(node, processPrimaryExpr(Child(node, 0)),
                processAssignExpr(Child(node, 2)))

(* lines 670-709 *)
processPrimaryExpr(node) ==
  IF node = Undefined \/ Child(node, 0) = Undefined THEN Fail
  ELSE LET firstChild == Child(node, 0) IN
       CASE firstChild.symbol = "identifier" ->
              Ok(IdentifierExpr(firstChild.token.value))
         [] firstChild.symbol = "number" ->
              Ok([kind |-> "NumericLiteral",
                  value |-> parseFloat(IF firstChild.token.value = "" THEN "0"
                                       ELSE firstChild.token.value)])
         [] firstChild.symbol = "string" ->
              Ok([kind |-> "StringLiteral", value |-> firstChild.token.value])
         [] firstChild.symbol = "(" -> processAssignExpr(Child(node, 1))
         [] firstChild.symbol = "ObjLiteral" -> processObjLiteral(firstChild)
         [] firstChild.symbol = "ArrayLiteral" -> processArrayLiteral(firstChild)
         [] OTHER -> Ok(IdentifierExpr("undefined"))

(* lines 711-719 *)
processArgs(node) ==
  IF node = Undefined THEN Fail
  ELSE IF Len(node.children) = 0 \/ Child(node, 0).symbol = EPSILON THEN Ok(<<>>)
  ELSE processArgList(Child(node, 0))

(* the list methods: the first element, then the rest when the node has    *)
(* more children and the third one is the list again                       *)
ListOf(node, listSymbol, first, more) ==
  IF Len(node.children) > 1
  THEN IF ~first.ok \/ Child(node, 2) = Undefined THEN Fail
       ELSE IF Child(node, 2).symbol = listSymbol
       THEN Lift2(first, more, LAMBDA f, m : <<f>> \o m)
       ELSE Lift1(first, LAMBDA f : <<f>>)
  ELSE Lift1(first, LAMBDA f : <<f>>)

(* lines 721-733 *)
processArgList(node) ==
  IF node = Undefined THEN Fail
  ELSE ListOf(node, "ArgList", processAssignExpr(Child(node, 0)),
              processArgList(Child(node, 2)))

(* lines 735-744 *)
processObjLiteral(node) ==
  Lift1(IF Len(node.children) > 1 THEN processPropList(Child(node, 1)) ELSE Ok(<<>>),
        LAMBDA properties : [kind |-> "ObjectLiteral", properties |-> properties])

(* lines 746-762 *)
processPropList(node) ==
  IF Len(node.children) = 0 THEN Ok(<<>>)
  ELSE ListOf(node, "PropList", processProp(Child(node, 0)),
              processPropList(Child(node, 2)))

(* lines 764-780 *)
processProp(node) ==
  IF node = Undefined \/ Child(node, 0) = Undefined THEN Fail
  ELSE Lift1(IF Len(node.children) > 1 /\ Child(node, 1).symbol = ":"
             THEN processAssignExpr(Child(node, 2))
             ELSE Ok(UndefinedValue),
             LAMBDA value :
               [kind |-> "Property", key |-> Child(node, 0).token.value,
                value |-> value])

(* lines 782-791 *)
processArrayLiteral(node) ==
  Lift1(IF Len(node.children) > 1 THEN processElements(Child(node, 1)) ELSE Ok(<<>>),
        LAMBDA elements : [kind |-> "ArrayLiteral", elements |-> elements])

(* lines 793-809 *)
processElements(node) ==
  IF Len(node.children) = 0 THEN Ok(<<>>)
  ELSE ListOf(node, "Elements", processAssignExpr(Child(node, 0)),
              processElements(Child(node, 2)))

(* lines 196-214 *)
StmtListOf(stmtList) ==
  IF stmtList = Undefined THEN Ok(Program(<<>>))
  ELSE Lift1(processStmtList(stmtList), Program)

buildAST(tree) == StmtListOf(findNode(tree, "StmtList"))

----------------------------------------------------------------------------
(* EnhancedLLParser.parse as steps of one parser instance                   *)

(* the loop is left by its condition, by the break or by a throw *)
LoopOver(e, toks) == e.thrown # NoError \/ e.done \/ ~LoopCondition(e, toks)

(* lines 184-189 and 69-82: the check after the loop, the conversion, and   *)
(* the catch that turns every throw into an empty Program                   *)
Built(root, ast) ==
  IF ast.ok
  THEN [thrown |-> NoError, parseTree |-> root, outcome |-> ast.val]
  ELSE [thrown |-> ParseError("TypeError", "", "", FALSE, 0),
        parseTree |-> root, outcome |-> Program(<<>>)]

Finish(e, toks, oldTree) ==
  IF e.thrown # NoError
  THEN [thrown |-> e.thrown, parseTree |-> oldTree, outcome |-> Program(<<>>)]
  ELSE IF e.index < Len(toks) - 1
  THEN [thrown |-> ParseError("ExtraInput", "", "", TRUE, e.index),
        parseTree |-> oldTree, outcome |-> Program(<<>>)]
  ELSE Built(Tree(e.nodes, 1), buildAST(Tree(e.nodes, 1)))

(* the whole loop from an engine state; a run whose stack passes MaxStack   *)
(* is one that never returns                                                *)
RECURSIVE RunLoop(_, _, _, _)
RunLoop(e, table, g, toks) ==
  IF LoopOver(e, toks) \/ Len(e.stack) > MaxStack THEN e
  ELSE RunLoop(LoopStep(e, table, g, toks), table, g, toks)

(* parse(toks) on a parser that has just been constructed *)
FreshParse(table, g, toks) ==
  Finish(RunLoop(SeededEngine(g), table, g, toks), toks, NoTree)

(* a parse that goes on from the cursor the last parse left *)
StartIndexStale == currentTokenIndex

(* line 66: the token cursor a parse starts from *)
StartIndex == 0

SeqsUpTo(S, n) == UNION {[1..k -> S] : k \in 0..n}

SmallTokens == {Tok("Identifier", "x"), Tok("BinaryOperator", "+")}

SmallInputs ==
  {<<>>} \cup {body \o <<EOFToken>> : body \in SeqsUpTo(SmallTokens, MaxTokens)}

(* print ( 5 + 10 ) ; as the lexer delivers it *)
PrintTokens ==
  <<Tok("Identifier", "print"), Tok("OpenParen", "("), Tok("Number", "5"),
    Tok("BinaryOperator", "+"), Tok("Number", "10"), Tok("CloseParen", ")"),
    Tok("Semicolon", ";"), EOFToken>>

AssignTokens(text) ==
  <<Tok("Identifier", "x"), Tok("Equals", "="), Tok("Number", text),
    Tok("Semicolon", ";"), EOFToken>>

(* ( 1 + ; as the lexer delivers it: the ; is the token of index 3 *)
MalformedTokens ==
  <<Tok("OpenParen", "("), Tok("Number", "1"), Tok("BinaryOperator", "+"),
    Tok("Semicolon", ";"), EOFToken>>

ProgramInputs ==
  {PrintTokens, AssignTokens("1"), AssignTokens("2"), MalformedTokens,
   <<Tok("Identifier", "x"), Tok("Semicolon", ";"), EOFToken>>,
   <<Tok("Number", "5"), Tok("Semicolon", ";"), EOFToken>>,
   <<Tok("Let", "let"), Tok("Identifier", "x"), Tok("Semicolon", ";"), EOFToken>>,
   <<Tok("Identifier", "x"), Tok("Semicolon", ";"),
     Tok("Number", "5"), Tok("Semicolon", ";"), EOFToken>>,
   <<EOFToken>>}

Inputs(g) == IF g \in {enhancedGrammar, ll1Grammar} THEN ProgramInputs ELSE SmallInputs

Engine ==
  [stack |-> stack, nodeStack |-> nodeStack, nodes |-> nodes,
   index |-> currentTokenIndex, thrown |-> thrown, done |-> FALSE]

(* lines 64-67 and 91-100 *)
ParseBegin(t) ==
  /\ pc = "built"
  /\ calls < MaxParses
  /\ tokens' = t
  /\ currentTokenIndex' = StartIndex
  /\ LET seed == SeededEngine(grammar)
     IN  /\ stack' = seed.stack
         /\ nodeStack' = seed.nodeStack
         /\ nodes' = seed.nodes
         /\ pc' = IF LoopOver([seed EXCEPT !.index = StartIndex], t)
                  THEN "finishing" ELSE "parsing"
  /\ thrown' = NoError
  /\ outcome' = NoOutcome
  /\ UNCHANGED <<parserType, grammar, firstSets, followSets, parseTable, warnings, pi,
                 changed,
                 run, prev, isLL1Result, parseTree, calls>>
  /\ UNCHANGED evalVars

(* an iteration that uses up the table row it reads *)
ParseStepConsuming ==
  /\ pc = "parsing"
  /\ Len(stack) <= MaxStack
  /\ LET e == LoopStep(Engine, parseTable, grammar, tokens)
     IN  /\ stack' = e.stack
         /\ nodeStack' = e.nodeStack
         /\ nodes' = e.nodes
         /\ currentTokenIndex' = e.index
         /\ thrown' = e.thrown
         /\ pc' = IF LoopOver(e, tokens) THEN "finishing" ELSE "parsing"
  /\ parseTable' = IF Top(stack) \in DOMAIN parseTable
                   THEN [parseTable EXCEPT ![Top(stack)] = <<>>]
                   ELSE parseTable
  /\ UNCHANGED <<parserType, grammar, firstSets, followSets, warnings, pi, changed,
                 run, prev, isLL1Result, tokens, parseTree, outcome, calls>>
  /\ UNCHANGED evalVars

(* lines 103-182: one iteration *)
ParseStep ==
  /\ pc = "parsing"
  /\ Len(stack) <= MaxStack
  /\ LET e == LoopStep(Engine, parseTable, grammar, tokens)
     IN  /\ stack' = e.stack
         /\ nodeStack' = e.nodeStack
         /\ nodes' = e.nodes
         /\ currentTokenIndex' = e.index
         /\ thrown' = e.thrown
         /\ pc' = IF LoopOver(e, tokens) THEN "finishing" ELSE "parsing"
  /\ UNCHANGED <<parserType, grammar, firstSets, followSets, parseTable, warnings, pi,
                 changed,
                 run, prev, isLL1Result, tokens, parseTree, outcome, calls>>
  /\ UNCHANGED evalVars

(* lines 184-189, 71-82: parse returns; the stacks were locals *)
ParseEnd ==
  /\ pc = "finishing"
  /\ LET r == Finish(Engine, tokens, parseTree)
     IN  /\ thrown' = r.thrown
         /\ parseTree' = r.parseTree
         /\ outcome' = r.outcome
  /\ stack' = <<>>
  /\ nodeStack' = <<>>
  /\ nodes' = <<>>
  /\ calls' = calls + 1
  /\ pc' = "built"
  /\ UNCHANGED <<parserType, grammar, firstSets, followSets, parseTable, warnings, pi,
                 changed,
                 run, prev, isLL1Result, tokens, currentTokenIndex>>
  /\ UNCHANGED evalVars

NextParse ==
  \/ FirstStep
  \/ FollowStep
  \/ TableStep
  \/ \E t \in Inputs(grammar) : ParseBegin(t)
  \/ ParseStep
  \/ ParseEnd

SpecParse == InitAnalysis /\ [][NextParse]_vars

----------------------------------------------------------------------------
(* Properties of the parser instance *)

Rejected == pc = "built" /\ calls > 0 /\ thrown # NoError

Returned == pc = "built" /\ calls > 0

Constructed == pc \in {"built", "parsing", "finishing"}

(* C1: a parse that rejected its tokens (a throw of the engine: terminal    *)
(* mismatch, missing table entry, input after the end) returns an outcome   *)
(* that is not a Program, so that the caller can tell it from a success.    *)
C1_RejectedIsNotAProgram == Rejected => outcome.kind # "Program"

(* C7: whatever parses came before on the same instance, the Program a parse *)
(* returns and the error it reports are those of the same parse on a parser *)
(* that has just been constructed.                                          *)
C7_ParseStartsFresh ==
  Returned =>
    LET fresh == FreshParse(parseTable, grammar, tokens)
    IN  outcome = fresh.outcome /\ thrown = fresh.thrown

C7_Witness ==
  /\ Returned
  /\ calls = 2
  /\ parseTree # NoTree
  /\ thrown # NoError
  /\ thrown.kind # "TypeError"
  /\ currentTokenIndex > 0

(* C8: no step of a parse, of one that succeeds or of one that fails,       *)
(* changes the grammar, the FIRST sets, the FOLLOW sets or a table cell.    *)
C8_ParseLeavesTableAlone ==
  [][Constructed =>
       (grammar' = grammar /\ firstSets' = firstSets /\
        followSets' = followSets /\ parseTable' = parseTable)]_vars

C8_Witness ==
  /\ Rejected
  /\ calls = MaxParses
  /\ \E nt \in DOMAIN parseTable : Len(parseTable[nt]) > 1

(* the throws of buildParseTree, as opposed to a TypeError of the converter *)
ParseFailureKinds ==
  {"ExpectedEndOfInput", "TerminalMismatch", "NoTableRow", "UnexpectedToken",
   "NodeStackUnderflow", "ExtraInput"}

(* C14: the error of every failed parse carries the index of the token at   *)
(* which the parse failed; for  ( 1 + ;  that index is 3, the index of the  *)
(* ; token.                                                                 *)
C14_FailureCarriesTokenIndex ==
  (Rejected /\ thrown.kind \in ParseFailureKinds) =>
     /\ thrown.positioned
     /\ tokens = MalformedTokens => thrown.position = 3

(* C15: no parser is produced for a grammar whose table construction met a  *)
(* conflict: a parser that has run a parse has a table built without one.   *)
C15_ConflictAbortsConstruction ==
  Returned => warnings = <<>>

(* node n is reached from node m by first children only: nothing was       *)
(* consumed between the expansion of m and the moment n came on top         *)
RECURSIVE LeftmostDescendant(_, _)
LeftmostDescendant(m, n) ==
  /\ nodes[m].children # <<>>
  /\ \/ nodes[m].children[1] = n
     \/ LeftmostDescendant(nodes[m].children[1], n)

(* the nonterminal on top is about to be expanded by the table at the token *)
(* at which an equal nonterminal above it in the tree was expanded: the same *)
(* steps follow again, without end                                          *)
ExpansionCycle ==
  /\ pc = "parsing"
  /\ nodeStack # <<>>
  /\ Top(stack) \in DOMAIN parseTable
  /\ MapHas(parseTable[Top(stack)],
            tokenTypeToTerminal(tokens[currentTokenIndex + 1].type))
  /\ \E m \in 1..Len(nodes) :
        /\ nodes[m].symbol = Top(stack)
        /\ LeftmostDescendant(m, Top(nodeStack))

(* C22: the parse loop ends for every table and every token sequence: it    *)
(* never comes to expand a nonterminal again beneath itself without having  *)
(* consumed a token in between.                                             *)
C22_ParseLoopTerminates == ~ExpansionCycle

(* the token the cursor is at *)
CurrentToken == tokens[currentTokenIndex + 1]

(* what the lexer delivers: a token array that ends with the EOF token *)
EndsWithEOF(toks) == toks # <<>> /\ toks[Len(toks)].type = "EOF"

(* the loop is over and buildParseTree is about to return its tree *)
Succeeding ==
  /\ pc = "finishing"
  /\ thrown = NoError
  /\ ~(currentTokenIndex < Len(tokens) - 1)

(* C23: with the end marker on top, the EOF token pops the marker and ends  *)
(* the loop without an error and with an empty stack, and any other token   *)
(* ends the parse with the expected-end-of-input error; a parse of a token  *)
(* array of the lexer never succeeds with a symbol left on the stack.       *)
C23_EndMarkerEndsParse ==
  /\ [][(pc = "parsing" /\ Top(stack) = END_MARKER) =>
          IF CurrentToken.type = "EOF"
          THEN /\ stack' = <<>>
               /\ thrown' = NoError
               /\ currentTokenIndex' = currentTokenIndex
               /\ pc' = "finishing"
          ELSE /\ thrown'.kind = "ExpectedEndOfInput"
               /\ pc' = "finishing"]_vars
  /\ []((Succeeding /\ EndsWithEOF(tokens)) => stack = <<>>)

C23_Witness ==
  /\ Succeeding
  /\ EndsWithEOF(tokens)
  /\ Len(tokens) > 1
  /\ stack = <<>>
  /\ Len(nodes) > 2

(* a terminal other than the end marker is on top at the start of an        *)
(* iteration                                                                *)
TerminalOnTop ==
  /\ pc = "parsing"
  /\ Top(stack) # END_MARKER
  /\ SetHas(grammar.terminals, Top(stack))

(* C24: a terminal on top matches the current token exactly when it is the  *)
(* token's terminal, or it is op and the token is an operator token; a      *)
(* match puts the token on the node on top of the node stack, takes one     *)
(* entry off each stack and moves the cursor by one; a mismatch ends the    *)
(* parse with an error and leaves the cursor where it is.                   *)
C24_TerminalStep ==
  [][TerminalOnTop =>
       IF \/ Top(stack) = tokenTypeToTerminal(CurrentToken.type)
          \/ Top(stack) = "op" /\ CurrentToken.type = "BinaryOperator"
       THEN /\ thrown' = NoError
            /\ stack' = SubSeq(stack, 1, Len(stack) - 1)
            /\ nodeStack # <<>>
            /\ nodeStack' = SubSeq(nodeStack, 1, Len(nodeStack) - 1)
            /\ currentTokenIndex' = currentTokenIndex + 1
            /\ nodes[nodeStack[Len(nodeStack)]].symbol = Top(stack)
            /\ Len(nodes') = Len(nodes)
            /\ \A n \in 1..Len(nodes) :
                  nodes'[n] = IF n = nodeStack[Len(nodeStack)]
                              THEN [nodes[n] EXCEPT !.token = CurrentToken]
                              ELSE nodes[n]
       ELSE /\ thrown' # NoError
            /\ thrown'.kind = "TerminalMismatch"
            /\ currentTokenIndex' = currentTokenIndex
            /\ pc' = "finishing"]_vars

(* an operator token was matched by op, and a later terminal is on top *)
C24_Witness ==
  /\ TerminalOnTop
  /\ currentTokenIndex > 1
  /\ \E n \in 1..Len(nodes) :
        /\ nodes[n].symbol = "op"
        /\ nodes[n].token.type = "BinaryOperator"
        /\ nodes[n].token.value # "op"

Reverse(s) == [i \in 1..Len(s) |-> s[Len(s) + 1 - i]]

WithoutEpsilon(rhs) == SelectSeq(rhs, LAMBDA x : x # EPSILON)

NonTerminalOnTop ==
  /\ pc = "parsing"
  /\ Top(stack) # END_MARKER
  /\ ~SetHas(grammar.terminals, Top(stack))

(* the production the table holds for the symbol on top and the current     *)
(* token                                                                    *)
HasEntry ==
  /\ Top(stack) \in DOMAIN parseTable
  /\ MapHas(parseTable[Top(stack)], tokenTypeToTerminal(CurrentToken.type))

Chosen == MapGet(parseTable[Top(stack)], tokenTypeToTerminal(CurrentToken.type))

(* C25: with nonterminal A on top and P in table[A][cur], the step takes A  *)
(* and its node off the stacks, pushes the symbols of P's right-hand side   *)
(* other than epsilon with the leftmost on top, gives the node one new      *)
(* childless node per pushed symbol as its children, in the order of the    *)
(* right-hand side, changes no other node and leaves the cursor; an epsilon *)
(* production pushes nothing and adds no child; without an entry the parse  *)
(* fails.                                                                   *)
C25_ExpansionStep ==
  [][NonTerminalOnTop =>
       IF HasEntry
       THEN LET syms == WithoutEpsilon(Chosen.rhs)
                node == nodeStack[Len(nodeStack)]
            IN  /\ thrown' = NoError
                /\ currentTokenIndex' = currentTokenIndex
                /\ stack' = SubSeq(stack, 1, Len(stack) - 1) \o Reverse(syms)
                /\ Len(nodes') = Len(nodes) + Len(syms)
                /\ nodes[node].children = <<>>
                /\ Len(nodes'[node].children) = Len(syms)
                /\ \A k \in 1..Len(syms) :
                      /\ nodes'[node].children[k] > Len(nodes)
                      /\ nodes'[nodes'[node].children[k]] = ParseNode(syms[k])
                /\ \A k, l \in 1..Len(syms) :
                      k # l => nodes'[node].children[k] # nodes'[node].children[l]
                /\ nodeStack' = SubSeq(nodeStack, 1, Len(nodeStack) - 1)
                                   \o Reverse(nodes'[node].children)
                /\ \A n \in 1..Len(nodes) :
                      nodes'[n] = IF n = node
                                  THEN [nodes[n] EXCEPT !.children = nodes'[node].children]
                                  ELSE nodes[n]
       ELSE /\ thrown' # NoError
            /\ thrown'.kind \in {"NoTableRow", "UnexpectedToken"}
            /\ currentTokenIndex' = currentTokenIndex
            /\ pc' = "finishing"]_vars

(* a node with two children or more, and a nonterminal node that an epsilon *)
(* production has expanded                                                  *)
C25_Witness ==
  /\ pc = "parsing"
  /\ \E n \in 1..Len(nodes) : Len(nodes[n].children) >= 2
  /\ \E m \in 1..Len(nodes) :
        /\ m \notin Range(nodeStack)
        /\ SetHas(grammar.nonTerminals, nodes[m].symbol)
        /\ nodes[m].children = <<>>

(* C26: at the start of every iteration the symbol stack has the end marker *)
(* at its bottom and the node stack has one entry for each symbol above it, *)
(* the i-th node tagged with the i-th of those symbols; the first iteration *)
(* starts from [end marker, start symbol] and the root node; the node stack *)
(* never underflows.                                                        *)
C26_NodeStackMirrorsStack ==
  /\ []((pc = "parsing") =>
          /\ stack # <<>>
          /\ stack[1] = END_MARKER
          /\ Len(nodeStack) = Len(stack) - 1
          /\ \A i \in 1..Len(nodeStack) :
                /\ nodeStack[i] \in 1..Len(nodes)
                /\ nodes[nodeStack[i]].symbol = stack[i + 1])
  /\ [](thrown # NoError => thrown.kind # "NodeStackUnderflow")
  /\ [][(pc = "built" /\ pc' = "parsing") =>
          /\ stack' = <<END_MARKER, grammar.startSymbol>>
          /\ nodeStack' = <<1>>
          /\ nodes' = <<ParseNode(grammar.startSymbol)>>]_vars

C26_Witness ==
  /\ pc = "parsing"
  /\ Len(stack) >= 4
  /\ currentTokenIndex >= 2
  /\ SetHas(grammar.terminals, Top(stack))

(* the tokens of the terminal nodes below node n, from left to right *)
RECURSIVE Yield(_)
RECURSIVE YieldOfChildren(_, _)
Yield(n) ==
  IF SetHas(grammar.terminals, nodes[n].symbol)
  THEN <<nodes[n].token>>
  ELSE YieldOfChildren(nodes[n].children, 1)

YieldOfChildren(children, i) ==
  IF i > Len(children) THEN <<>>
  ELSE Yield(children[i]) \o YieldOfChildren(children, i + 1)

(* the places where node n is a child *)
ParentsOf(n) ==
  {pos \in (1..Len(nodes)) \X (1..Len(nodes)) :
     /\ pos[2] <= Len(nodes[pos[1]].children)
     /\ nodes[pos[1]].children[pos[2]] = n}

(* C27: the tree a successful parse of an EOF-terminated token array        *)
(* returns is a derivation tree of the input: the root is tagged with the   *)
(* start symbol and is no one's child, every other node is a child at       *)
(* exactly one place, the children of a nonterminal node spell the          *)
(* right-hand side, without epsilon, of a production of its symbol, a       *)
(* terminal node is a leaf with a token and a nonterminal node has none,    *)
(* and the tokens of the terminal nodes from left to right are the input    *)
(* before EOF.                                                              *)
C27_TreeIsDerivation ==
  (Succeeding /\ EndsWithEOF(tokens)) =>
    /\ nodes[1].symbol = grammar.startSymbol
    /\ ParentsOf(1) = {}
    /\ \A n \in 2..Len(nodes) : Cardinality(ParentsOf(n)) = 1
    /\ \A n \in 1..Len(nodes) :
          IF SetHas(grammar.terminals, nodes[n].symbol)
          THEN /\ nodes[n].children = <<>>
               /\ nodes[n].token # NoToken
          ELSE /\ nodes[n].token = NoToken
               /\ \E i \in 1..NumProds :
                     /\ grammar.productions[i].lhs = nodes[n].symbol
                     /\ WithoutEpsilon(grammar.productions[i].rhs) =
                          [k \in 1..Len(nodes[n].children) |->
                             nodes[nodes[n].children[k]].symbol]
    /\ Yield(1) = SubSeq(tokens, 1, Len(tokens) - 1)

(* a returned tree of three levels or more over three tokens or more *)
C27_Witness ==
  /\ Succeeding
  /\ EndsWithEOF(tokens)
  /\ Len(tokens) >= 4
  /\ \E n \in 2..Len(nodes) :
        /\ nodes[n].children # <<>>
        /\ \E k \in 1..Len(nodes[n].children) :
              nodes[nodes[n].children[k]].children # <<>>

----------------------------------------------------------------------------
(* The converter on binary chains: the trees that productions 33-38 of the  *)
(* enhanced grammar derive for  a o1 b o2 c , converted as buildAST does    *)
(* (processExpr on the Expr node of a statement) or by the method of the    *)
(* chain's own ladder level.                                                *)

TreeNode(symbol, children) == [symbol |-> symbol, children |-> children, token |-> NoToken]

TreeLeaf(tok) ==
  [symbol |-> tokenTypeToTerminal(tok.type), children |-> <<>>, token |-> tok]

ProductionsOf(g) == {g.productions[i] : i \in 1..Len(g.productions)}

(* the symbol a ladder level passes to: Expr -> AssignExpr, ...,            *)
(* MemberExpr -> PrimaryExpr                                                *)
UnitStep(symbol) ==
  (CHOOSE p \in ProductionsOf(enhancedGrammar) :
     p.lhs = symbol /\ Len(p.rhs) = 1).rhs[1]

(* the level below a chain level: the first symbol of  Level -> Lower op Level *)
LowerLevel(level) ==
  (CHOOSE p \in ProductionsOf(enhancedGrammar) :
     p.lhs = level /\ Len(p.rhs) = 3 /\ p.rhs[2] = "op" /\ p.rhs[3] = level).rhs[1]

ChainLevels == {"CompExpr", "AddExpr", "MultExpr"}

RECURSIVE OperandTree(_, _)
OperandTree(symbol, tok) ==
  IF symbol = "PrimaryExpr" THEN TreeNode(symbol, <<TreeLeaf(tok)>>)
  ELSE TreeNode(symbol, <<OperandTree(UnitStep(symbol), tok)>>)

RECURSIVE ChainTree(_, _)
ChainTree(level, toks) ==
  IF Len(toks) = 1
  THEN TreeNode(level, <<OperandTree(LowerLevel(level), toks[1])>>)
  ELSE TreeNode(level, <<OperandTree(LowerLevel(level), toks[1]),
                         TreeLeaf(toks[2]),
                         ChainTree(level, SubSeq(toks, 3, Len(toks)))>>)

RECURSIVE ExprTree(_, _, _)
ExprTree(symbol, level, toks) ==
  IF symbol = level THEN ChainTree(level, toks)
  ELSE TreeNode(symbol, <<ExprTree(UnitStep(symbol), level, toks)>>)

Operands == {Tok("Identifier", "a"), Tok("Identifier", "b"), Tok("Number", "5")}

Operators == {Tok("BinaryOperator", "-"), Tok("BinaryOperator", "+")}

ChainTokens ==
  {<<a, o1, b, o2, c>> : a \in Operands, o1 \in Operators, b \in Operands,
                         o2 \in Operators, c \in Operands}

(* parse-tree shapes no production of the enhanced grammar derives: a       *)
(* PrimaryExpr whose first child is an operator, and a statement list whose *)
(* Stmt has a Block as its first child                                      *)
UnknownShapes ==
  {TreeNode("PrimaryExpr", <<TreeLeaf(o)>>) : o \in Operators}
    \cup {TreeNode("StmtList", <<TreeNode("Stmt", <<TreeNode("Block", <<>>)>>),
                                 TreeNode("StmtList", <<>>)>>)}

InitConv ==
  /\ grammar = enhancedGrammar
  /\ firstSets = <<>>
  /\ followSets = <<>>
  /\ parseTable = <<>>
  /\ warnings = <<>>
  /\ pi = 1
  /\ changed = FALSE
  /\ run = 1
  /\ prev = NoPrev
  /\ isLL1Result = "none"
  /\ \/ /\ pc = "convert"
        /\ \E toks \in ChainTokens : \E level \in ChainLevels :
              /\ tokens = toks
              /\ parseTree \in {ChainTree(level, toks), ExprTree("Expr", level, toks)}
     \/ /\ pc = "shape"
        /\ tokens = <<>>
        /\ parseTree \in UnknownShapes
  /\ currentTokenIndex = 0
  /\ stack = <<>>
  /\ nodeStack = <<>>
  /\ nodes = <<>>
  /\ thrown = NoError
  /\ outcome = NoOutcome
  /\ calls = 0
  /\ parserType = "none"
  /\ EvalIdle

(* the converter method the tree is handed to *)
ConvertExpr(tree) ==
  CASE tree.symbol = "CompExpr" -> processCompExpr(tree)
    [] tree.symbol = "AddExpr" -> processAddExpr(tree)
    [] tree.symbol = "MultExpr" -> processMultExpr(tree)
    [] OTHER -> processAssignExpr(tree)

Convert ==
  /\ pc = "convert"
  /\ outcome' = ConvertExpr(parseTree)
  /\ pc' = "converted"
  /\ UNCHANGED <<parserType, grammar, firstSets, followSets, parseTable, warnings, pi,
                 changed,
                 run, prev, isLL1Result, tokens, currentTokenIndex, stack,
                 nodeStack, nodes, parseTree, thrown, calls>>
  /\ UNCHANGED evalVars

(* the converter method of the node's own symbol *)
ConvertShapeOf(tree) ==
  CASE tree.symbol = "PrimaryExpr" -> processPrimaryExpr(tree)
    [] tree.symbol = "StmtList" -> processStmtList(tree)

ConvertShape ==
  /\ pc = "shape"
  /\ outcome' = ConvertShapeOf(parseTree)
  /\ pc' = "shaped"
  /\ UNCHANGED <<parserType, grammar, firstSets, followSets, parseTable, warnings, pi,
                 changed, run, prev, isLL1Result, tokens, currentTokenIndex, stack,
                 nodeStack, nodes, parseTree, thrown, calls>>
  /\ UNCHANGED evalVars

NextConv == Convert \/ ConvertShape

SpecConv == InitConv /\ [][NextConv]_vars

C18_UnknownShapeIsAnError ==
  pc = "shaped" => ~outcome.ok

----------------------------------------------------------------------------
(* The recursive-descent parser of frontend/parser.ts, for statements made  *)
(* of identifiers, numbers, strings, operators, =, commas, parentheses and  *)
(* semicolons.  The token array always ends with the EOF token (lexer.ts),  *)
(* so at() and eat() find a token.  A result is [st, toks, val]: st is      *)
(* "ok" or "exit" (Deno.exit(1)), toks the tokens not yet shifted.          *)

ROk(toks, val) == [st |-> "ok", toks |-> toks, val |-> val]

RExit == [st |-> "exit", toks |-> <<>>, val |-> <<>>]

NumericLiteral(value) == [kind |-> "NumericLiteral", value |-> value]

StringLiteral(value) == [kind |-> "StringLiteral", value |-> value]

AssignmentExpr(assigne, value) ==
  [kind |-> "AssignmentExpr", assigne |-> assigne, value |-> value]

(* lines 47-49 *)
not_eof(toks) == Len(toks) > 0 /\ toks[1].type # "EOF"

(* lines 75-85 *)
expect(toks, type) ==
  IF toks[1].type # type THEN RExit ELSE ROk(Tail(toks), toks[1])

ComparisonOperators == {">", "<", ">=", "<=", "==", "!="}

AdditiveOperators == {"+", "-"}

MultiplicativeOperators == {"/", "*", "%"}

(* what follows a call: Deno.exit ends the parse, otherwise the method goes *)
(* on with the value returned and the tokens left                           *)
Then(r, Rest(_, _)) == IF r.st # "ok" THEN r ELSE Rest(r.val, r.toks)

RECURSIVE parse_comparison_expr(_), comparison_loop(_, _), parse_assignment_expr(_),
          parse_additive_expr(_), additive_loop(_, _),
          parse_multiplicitave_expr(_), multiplicitave_loop(_, _),
          parse_call_member_expr(_), parse_call_expr(_, _), parse_args(_),
          parse_arguments_list(_), arguments_loop(_, _), parse_primary_expr(_)

(* lines 302-304 *)
parse_expr(toks) == parse_comparison_expr(toks)

(* lines 306-328 *)
parse_comparison_expr(toks) ==
  Then(parse_assignment_expr(toks), comparison_loop)

comparison_loop(left, toks) ==
  IF toks[1].value \notin ComparisonOperators THEN ROk(toks, left)
  ELSE Then(parse_assignment_expr(Tail(toks)),
            LAMBDA right, rest :
              comparison_loop(BinaryExpr(left, right, toks[1].value), rest))

(* lines 330-340; lines 342-346 and 388-391: without { or [ the object and  *)
(* array levels pass to parse_additive_expr                                 *)
parse_assignment_expr(toks) ==
  Then(parse_additive_expr(toks),
       LAMBDA left, rest :
         IF rest[1].type = "Equals"
         THEN Then(parse_assignment_expr(Tail(rest)),
                   LAMBDA value, after : ROk(after, AssignmentExpr(left, value)))
         ELSE ROk(rest, left))

(* lines 419-434 *)
parse_additive_expr(toks) ==
  Then(parse_multiplicitave_expr(toks), additive_loop)

additive_loop(left, toks) ==
  IF toks[1].value \notin AdditiveOperators THEN ROk(toks, left)
  ELSE Then(parse_multiplicitave_expr(Tail(toks)),
            LAMBDA right, rest :
              additive_loop(BinaryExpr(left, right, toks[1].value), rest))

(* lines 437-456 *)
parse_multiplicitave_expr(toks) ==
  Then(parse_call_member_expr(toks), multiplicitave_loop)

multiplicitave_loop(left, toks) ==
  IF toks[1].value \notin MultiplicativeOperators THEN ROk(toks, left)
  ELSE Then(parse_call_member_expr(Tail(toks)),
            LAMBDA right, rest :
              multiplicitave_loop(BinaryExpr(left, right, toks[1].value), rest))

(* lines 459-467 *)
parse_call_member_expr(toks) ==
  Then(parse_primary_expr(toks),
       LAMBDA member, rest :
         IF rest[1].type = "OpenParen" THEN parse_call_expr(member, rest)
         ELSE ROk(rest, member))

(* lines 469-481 *)
parse_call_expr(caller, toks) ==
  Then(parse_args(toks),
       LAMBDA args, rest :
         IF rest[1].type = "OpenParen" THEN parse_call_expr(CallExpr(caller, args), rest)
         ELSE ROk(rest, CallExpr(caller, args)))

(* lines 483-493 *)
parse_args(toks) ==
  Then(expect(toks, "OpenParen"),
       LAMBDA open, rest :
         Then(IF rest[1].type = "CloseParen" THEN ROk(rest, <<>>)
              ELSE parse_arguments_list(rest),
              LAMBDA args, after :
                Then(expect(after, "CloseParen"),
                     LAMBDA close, left : ROk(left, args))))

(* lines 495-503 *)
parse_arguments_list(toks) ==
  Then(parse_assignment_expr(toks),
       LAMBDA first, rest : arguments_loop(<<first>>, rest))

arguments_loop(args, toks) ==
  IF toks[1].type # "Comma" THEN ROk(toks, args)
  ELSE Then(parse_assignment_expr(Tail(toks)),
            LAMBDA next, rest : arguments_loop(Append(args, next), rest))

(* lines 555-598, without the [ of array literals *)
parse_primary_expr(toks) ==
  LET tk == toks[1] IN
  CASE tk.type = "Identifier" -> ROk(Tail(toks), IdentifierExpr(tk.value))
    [] tk.type = "Number" -> ROk(Tail(toks), NumericLiteral(parseFloat(tk.value)))
    [] tk.type = "String" -> ROk(Tail(toks), StringLiteral(tk.value))
    [] tk.type = "OpenParen" ->
         Then(parse_expr(Tail(toks)),
              LAMBDA value, rest :
                Then(expect(rest, "CloseParen"),
                     LAMBDA close, after : ROk(after, value)))
    [] tk.type \notin {"Identifier", "Number", "String", "OpenParen", "OpenBracket"} ->
         RExit

(* lines 143-175: the default branch, taken by every token that is not a    *)
(* keyword (TokenType has no member Print, so case TokenType.Print is never *)
(* taken)                                                                   *)
parse_stmt(toks) ==
  Then(parse_expr(toks),
       LAMBDA expr, rest :
         IF rest[1].type # "CloseBrace"
         THEN Then(expect(rest, "Semicolon"),
                   LAMBDA semi, after : ROk(after, ExpressionStatement(expr)))
         ELSE ROk(rest, ExpressionStatement(expr)))

(* lines 105-118 *)
RECURSIVE statements_loop(_, _)
statements_loop(body, toks) ==
  IF ~not_eof(toks) THEN ROk(toks, Program(body))
  ELSE Then(parse_stmt(toks),
            LAMBDA stmt, rest : statements_loop(Append(body, stmt), rest))

parseRecursiveDescent(toks) == statements_loop(<<>>, toks)

----------------------------------------------------------------------------
(* LL1Parser (enhanced_ll_parser/ll1_parser.ts), the parser that            *)
(* createEnhancedLLParser returns.  The token array is toks, the cursor i   *)
(* is this.currentTokenIndex; a result is [st, i, val] with st "ok" or      *)
(* "throw".                                                                 *)

Null == [type |-> "null", value |-> ""]

(* lines 26, 45-52: this.currentToken *)
currentToken(toks, i) == IF i < Len(toks) THEN toks[i + 1] ELSE Null

LOk(i, val) == [st |-> "ok", i |-> i, val |-> val]

LThrow == [st |-> "throw", i |-> 0, val |-> <<>>]

(* lines 54-66 *)
match(toks, i, type) ==
  IF currentToken(toks, i) = Null THEN LThrow
  ELSE IF currentToken(toks, i).type = type THEN LOk(i + 1, currentToken(toks, i))
  ELSE LThrow

(* lines 74-76 *)
check(toks, i, type) == currentToken(toks, i).type = type

(* TokenType has no member Print (lexer.ts lines 8-39): TokenType.Print is  *)
(* undefined, which is the type of no token, and                            *)
(* this.currentToken?.type === undefined holds when there is no token       *)
checkPrint(toks, i) == currentToken(toks, i) = Null

matchPrint(toks, i) == LThrow

(* what follows a call: a throw leaves the method, otherwise it goes on     *)
(* with the value returned and the cursor                                   *)
AndThen(r, Rest(_, _)) == IF r.st # "ok" THEN r ELSE Rest(r.val, r.i)

RECURSIVE expr(_, _), expr_loop(_, _, _), term(_, _), term_loop(_, _, _),
          factor(_, _), functionCall(_, _), functionCall_loop(_, _, _)

(* lines 178-200 *)
expr(toks, i) ==
  AndThen(term(toks, i), LAMBDA left, j : expr_loop(toks, j, left))

expr_loop(toks, i, left) ==
  LET cur == currentToken(toks, i) IN
  IF cur # Null /\ cur.type = "BinaryOperator" /\ cur.value \in {"+", "-"}
  THEN AndThen(term(toks, i + 1),
               LAMBDA right, j : expr_loop(toks, j, BinaryExpr(left, right, cur.value)))
  ELSE LOk(i, left)

(* lines 202-224 *)
term(toks, i) ==
  AndThen(factor(toks, i), LAMBDA left, j : term_loop(toks, j, left))

term_loop(toks, i, left) ==
  LET cur == currentToken(toks, i) IN
  IF cur # Null /\ cur.type = "BinaryOperator" /\ cur.value \in {"*", "/"}
  THEN AndThen(factor(toks, i + 1),
               LAMBDA right, j : term_loop(toks, j, BinaryExpr(left, right, cur.value)))
  ELSE LOk(i, left)

(* lines 226-257 *)
factor(toks, i) ==
  IF check(toks, i, "Identifier")
  THEN IF currentToken(toks, i + 1).type = "OpenParen"
       THEN functionCall(toks, i)
       ELSE LOk(i + 1, IdentifierExpr(currentToken(toks, i).value))
  ELSE IF check(toks, i, "Number")
  THEN LOk(i + 1, NumericLiteral(parseFloat(currentToken(toks, i).value)))
  ELSE IF check(toks, i, "String")
  THEN LOk(i + 1, StringLiteral(currentToken(toks, i).value))
  ELSE IF check(toks, i, "OpenParen")
  THEN AndThen(expr(toks, i + 1),
               LAMBDA inner, j :
                 AndThen(match(toks, j, "CloseParen"),
                         LAMBDA close, k : LOk(k, inner)))
  ELSE LThrow

(* lines 259-289 *)
functionCall(toks, i) ==
  AndThen(match(toks, i, "Identifier"),
    LAMBDA funcName, j :
      AndThen(match(toks, j, "OpenParen"),
        LAMBDA open, k :
          AndThen(IF check(toks, k, "CloseParen") THEN LOk(k, <<>>)
                  ELSE AndThen(expr(toks, k),
                               LAMBDA first, m : functionCall_loop(toks, m, <<first>>)),
            LAMBDA args, n :
              AndThen(match(toks, n, "CloseParen"),
                LAMBDA close, q :
                  LOk(q, CallExpr(IdentifierExpr(funcName.value), args))))))

functionCall_loop(toks, i, args) ==
  IF check(toks, i, "Comma")
  THEN AndThen(expr(toks, i + 1),
               LAMBDA next, j : functionCall_loop(toks, j, Append(args, next)))
  ELSE LOk(i, args)

(* lines 120-142 *)
printStmt(toks, i) ==
  AndThen(matchPrint(toks, i),
    LAMBDA print, j :
      AndThen(match(toks, j, "OpenParen"),
        LAMBDA open, k :
          AndThen(expr(toks, k),
            LAMBDA expression, m :
              AndThen(match(toks, m, "CloseParen"),
                LAMBDA close, n :
                  AndThen(match(toks, n, "Semicolon"),
                    LAMBDA semi, q :
                      LOk(q, ExpressionStatement(
                               CallExpr(IdentifierExpr("print"), <<expression>>))))))))

(* lines 144-165 *)
assignStmt(toks, i) ==
  AndThen(match(toks, i, "Identifier"),
    LAMBDA identifier, j :
      AndThen(match(toks, j, "Equals"),
        LAMBDA equals, k :
          AndThen(expr(toks, k),
            LAMBDA value, m :
              AndThen(match(toks, m, "Semicolon"),
                LAMBDA semi, n :
                  LOk(n, ExpressionStatement(
                           AssignmentExpr(IdentifierExpr(identifier.value), value)))))))

(* lines 167-176 *)
exprStmt(toks, i) ==
  AndThen(expr(toks, i),
    LAMBDA expression, j :
      AndThen(match(toks, j, "Semicolon"),
        LAMBDA semi, k : LOk(k, ExpressionStatement(expression))))

(* lines 108-118 *)
stmt(toks, i) ==
  IF checkPrint(toks, i) THEN printStmt(toks, i)
  ELSE IF check(toks, i, "Identifier") /\ currentToken(toks, i + 1).type = "Equals"
  THEN assignStmt(toks, i)
  ELSE exprStmt(toks, i)

(* lines 85-106 *)
RECURSIVE stmtList(_, _, _)
stmtList(toks, i, statements) ==
  LET cur == currentToken(toks, i) IN
  IF cur # Null /\ cur.type # "EOF"
  THEN IF \/ checkPrint(toks, i)
          \/ cur.type \in {"Identifier", "Number", "String", "OpenParen"}
       THEN AndThen(stmt(toks, i),
                    LAMBDA st, j : stmtList(toks, j, Append(statements, st)))
       ELSE LOk(i, statements)
  ELSE LOk(i, statements)

(* lines 30-36: the try and its catch around program() *)
Caught(statements) ==
  IF statements.st = "ok"
  THEN [st |-> "ok", val |-> Program(statements.val), failed |-> FALSE,
        i |-> statements.i]
  ELSE [st |-> "ok", val |-> Program(<<>>), failed |-> TRUE, i |-> 0]

(* lines 23-37 and 79-83: this.ast gets its body when program() returns;   *)
(* the catch returns this.ast as it is.  parse itself never throws:        *)
(* `failed` tells whether the catch ran.                                   *)
LL1Parser_parse(toks) == Caught(stmtList(toks, 0, <<>>))

----------------------------------------------------------------------------
(* Parser.parse (frontend/parser.ts) *)

(* lines 133-139: the try around enhancedLLParser.parse and its catch *)
OrFallBack(parsed, fallback) ==
  IF parsed.st = "throw"
  THEN [fallback EXCEPT !.toks = <<>>]
  ELSE [st |-> "ok", toks |-> <<>>, val |-> parsed.val]

(* lines 131-140: the catch is for a throw of enhancedLLParser.parse *)
parseEnhancedLL(toks) == OrFallBack(LL1Parser_parse(toks), parseRecursiveDescent(toks))

MaxFrontTokens == 4

FrontTokens ==
  {Tok("Identifier", "x"), Tok("Number", "1"), Tok("BinaryOperator", "+"),
   Tok("BinaryOperator", "%"), Tok("Equals", "="), Tok("Semicolon", ";"),
   Tok("OpenParen", "("), Tok("CloseParen", ")")}

FrontInputs ==
  {body \o <<EOFToken>> : body \in SeqsUpTo(FrontTokens, MaxFrontTokens)}
    \cup {PrintTokens}

InitFront ==
  /\ grammar = ll1Grammar
  /\ firstSets = <<>>
  /\ followSets = <<>>
  /\ parseTable = <<>>
  /\ warnings = <<>>
  /\ pc = "front"
  /\ pi = 1
  /\ changed = FALSE
  /\ run = 1
  /\ prev = NoPrev
  /\ isLL1Result = "none"
  /\ tokens \in FrontInputs
  /\ parserType \in {"RecursiveDescent", "EnhancedLL"}
  /\ currentTokenIndex = 0
  /\ stack = <<>>
  /\ nodeStack = <<>>
  /\ nodes = <<>>
  /\ parseTree = NoTree
  /\ thrown = NoError
  /\ outcome = NoOutcome
  /\ calls = 0
  /\ EvalIdle

(* lines 92-95 *)
ParseWithRecursiveDescent ==
  /\ pc = "front"
  /\ parserType = "RecursiveDescent"
  /\ outcome' = [parseRecursiveDescent(tokens) EXCEPT !.toks = <<>>]
  /\ pc' = "done"
  /\ calls' = calls + 1
  /\ UNCHANGED <<parserType, grammar, firstSets, followSets, parseTable, warnings, pi,
                 changed, run, prev, isLL1Result, tokens, currentTokenIndex, stack,
                 nodeStack, nodes, parseTree, thrown>>
  /\ UNCHANGED evalVars

(* lines 98-99 *)
ParseWithEnhancedLL ==
  /\ pc = "front"
  /\ parserType = "EnhancedLL"
  /\ outcome' = parseEnhancedLL(tokens)
  /\ thrown' = IF LL1Parser_parse(tokens).failed
               THEN ParseError("LL1", "", "", FALSE, 0) ELSE NoError
  /\ currentTokenIndex' = LL1Parser_parse(tokens).i
  /\ pc' = "done"
  /\ calls' = calls + 1
  /\ UNCHANGED <<parserType, grammar, firstSets, followSets, parseTable, warnings, pi,
                 changed, run, prev, isLL1Result, tokens, stack,
                 nodeStack, nodes, parseTree>>
  /\ UNCHANGED evalVars

NextFront == ParseWithRecursiveDescent \/ ParseWithEnhancedLL

SpecFront == InitFront /\ [][NextFront]_vars

(* C5: when the LL parse of the tokens fails and the recursive-descent      *)
(* parser has an AST for them, Parser.parse in EnhancedLL mode returns the  *)
(* AST of the recursive-descent parser.                                     *)
C5_FailedLLFallsBack ==
  (pc = "done" /\ parserType = "EnhancedLL" /\ thrown # NoError
     /\ parseRecursiveDescent(tokens).st = "ok") =>
    outcome.val = parseRecursiveDescent(tokens).val

(* C6: for print ( 5 + 10 ) ; the table-driven parser over the enhanced     *)
(* grammar returns one statement, the call of print with the single         *)
(* argument 5 + 10, and that Program is the recursive-descent parser's.     *)
C6_PrintCallMatchesRecursiveDescent ==
  (Returned /\ grammar = enhancedGrammar /\ tokens = PrintTokens) =>
    /\ outcome = parseRecursiveDescent(tokens).val
    /\ outcome.body =
         <<ExpressionStatement(
             CallExpr(IdentifierExpr("print"),
                      <<BinaryExpr(NumericLiteral(5), NumericLiteral(10), "+")>>))>>

----------------------------------------------------------------------------
(* LLParser (frontend/ll_parser/ll_parser.ts) over the grammar of           *)
(* ll_parser/grammar_utils.ts, with the table of ll_parser/parse_table.ts.  *)
(* An engine state e is [stack, index, thrown].                             *)

(* ll_parser/parse_table.ts lines 6-61: TokenType.BinaryOperator has no     *)
(* case, so an operator token has no terminal of the grammar                *)
llTokenTypeToTerminal(type) ==
  IF type = "BinaryOperator" THEN type ELSE tokenTypeToTerminal(type)

NoProduction == Q("none", <<>>)

(* Array.prototype.find: the first production that fits, or undefined *)
FirstOf(g, fits) ==
  IF fits = {} THEN NoProduction
  ELSE g.productions[CHOOSE i \in fits : \A j \in fits : i <= j]

findByFirst(g, lhs, first) ==
  FirstOf(g, {i \in 1..Len(g.productions) :
                g.productions[i].lhs = lhs /\ g.productions[i].rhs[1] = first})

findByLength(g, lhs, n) ==
  FirstOf(g, {i \in 1..Len(g.productions) :
                g.productions[i].lhs = lhs /\ Len(g.productions[i].rhs) = n})

(* `if (prod) map.set(t, prod)` for every t of keys *)
RECURSIVE setAll(_, _, _)
setAll(m, keys, prod) ==
  IF prod = NoProduction \/ keys = <<>> THEN m
  ELSE setAll(MapSet(m, Head(keys), prod), Tail(keys), prod)

(* lines 74-83 *)
programRow(g) ==
  setAll(<<>>, SelectSeq(g.terminals, LAMBDA t : t # "$"),
         findByFirst(g, "Program", "Stmt"))

StmtKeys ==
  << <<"IfStatement", <<"if">> >>,
     <<"VarDeclaration", <<"let", "const">> >>,
     <<"FunctionDeclaration", <<"fn">> >>,
     <<"WhileStatement", <<"while">> >>,
     <<"ForStatement", <<"for">> >>,
     <<"ReturnStatement", <<"return">> >>,
     <<"BreakStatement", <<"break">> >>,
     <<"ContinueStatement", <<"continue">> >>,
     <<"Expr", <<"identifier", "number", "string", "(">> >> >>

(* lines 86-144 *)
RECURSIVE stmtRow(_, _, _)
stmtRow(g, m, i) ==
  IF i > Len(StmtKeys) THEN m
  ELSE stmtRow(g, setAll(m, StmtKeys[i][2], findByFirst(g, "Stmt", StmtKeys[i][1])), i + 1)

(* lines 147-155 *)
ifRow(g) ==
  IF findByLength(g, "IfStatement", 7) # NoProduction
  THEN setAll(<<>>, <<"if">>, findByLength(g, "IfStatement", 7))
  ELSE setAll(<<>>, <<"if">>, findByLength(g, "IfStatement", 11))

(* lines 158-171 *)
blockRow(g, stmtMap) ==
  setAll(setAll(<<>>, MapKeys(stmtMap), findByFirst(g, "Block", "Stmt")),
         <<"}">>, findByFirst(g, "Block", EPSILON))

(* lines 174-183 and 210-217 *)
exprRow(g) ==
  setAll(setAll(setAll(setAll(setAll(<<>>,
    <<"identifier">>, findByFirst(g, "Expr", "identifier")),
    <<"number">>, findByFirst(g, "Expr", "number")),
    <<"string">>, findByFirst(g, "Expr", "string")),
    <<"(">>, findByFirst(g, "Expr", "(")),
    <<"identifier">>, findByFirst(g, "Expr", "identifier"))

(* lines 202-206 *)
varDeclRow(g) ==
  setAll(setAll(<<>>, <<"let">>, findByFirst(g, "VarDeclaration", "let")),
         <<"const">>, findByFirst(g, "VarDeclaration", "const"))

(* lines 64-220 *)
llBuildParseTable(g) ==
  [nt \in Range(g.nonTerminals) |->
     CASE nt = "Program" -> programRow(g)
       [] nt = "Stmt" -> stmtRow(g, <<>>, 1)
       [] nt = "IfStatement" -> ifRow(g)
       [] nt = "Block" -> blockRow(g, stmtRow(g, <<>>, 1))
       [] nt = "Expr" -> exprRow(g)
       [] nt = "VarDeclaration" -> varDeclRow(g)
       [] OTHER -> <<>>]

(* ll_parser.ts line 13 *)
operatorTokens == <<"+", "-", "*", "/", "%", "==", "!=", ">", "<", ">=", "<=">>

(* lines 110-112 *)
isOperator(value) == SetHas(operatorTokens, value)

(* line 93 compares with the literal of the Greek letter, which is not the  *)
(* string EPSILON of grammar_utils.ts (line 6)                              *)
SkippedLiteral == "U+03B5"

(* lines 92-96 *)
RECURSIVE llPushRhs(_, _, _)
llPushRhs(stk, rhs, i) ==
  IF i < 1 THEN stk
  ELSE llPushRhs(IF rhs[i] # SkippedLiteral THEN Append(stk, rhs[i]) ELSE stk, rhs, i - 1)

(* line 40: the test of the first special case *)
BinarySpecialCase(top, tok, index) ==
  top = "Expr" /\ isOperator(tok.value) /\ index > 0

(* lines 57-58: the test of the second special case *)
CallSpecialCase(top, toks, index) ==
  /\ top = "identifier"
  /\ index < Len(toks) - 1
  /\ toks[index + 2].type = "OpenParen"

(* lines 81-97: a nonterminal on top *)
llExpand(e, top, production) ==
  [e EXCEPT !.stack = llPushRhs(Pop(@), production.rhs, Len(production.rhs))]

(* lines 33-97: one iteration of the loop *)
llLoopStep(e, table, g, toks) ==
  LET top == Top(e.stack)
      tok == toks[e.index + 1]
      currentTerminal == llTokenTypeToTerminal(tok.type)
  IN
  IF BinarySpecialCase(top, tok, e.index)
  THEN [e EXCEPT !.stack = Pop(@) \o <<"Expr", tok.value, "Expr">>]
  ELSE IF CallSpecialCase(top, toks, e.index)
  THEN [e EXCEPT !.stack = Pop(@) \o <<")", "Expr", "(", "identifier">>]
  ELSE IF top = currentTerminal
  THEN [e EXCEPT !.stack = Pop(@), !.index = @ + 1]
  ELSE IF SetHas(g.terminals, top)
  THEN [e EXCEPT !.thrown =
          ParseError("TerminalMismatch", top, tok.value, TRUE, e.index)]
  ELSE IF top \notin DOMAIN table \/ ~MapHas(table[top], currentTerminal)
  THEN [e EXCEPT !.thrown =
          ParseError("NoProduction", top, tok.value, FALSE, 0)]
  ELSE llExpand(e, top, MapGet(table[top], currentTerminal))

(* token arrays of the lexer: at most MaxTokens tokens and the EOF token *)
LLTokens ==
  {Tok("Identifier", "x"), Tok("OpenParen", "("), Tok("CloseParen", ")"),
   Tok("BinaryOperator", "+"), Tok("Number", "1"), Tok("Semicolon", ";"),
   Tok("OpenBrace", "{"), Tok("CloseBrace", "}")}

(* let x = - 5 ; as the lexer delivers it *)
NegativeTokens ==
  <<Tok("Let", "let"), Tok("Identifier", "x"), Tok("Equals", "="),
    Tok("BinaryOperator", "-"), Tok("Number", "5"), Tok("Semicolon", ";"), EOFToken>>

LLInputs ==
  {body \o <<EOFToken>> : body \in SeqsUpTo(LLTokens, MaxTokens)}
    \cup {PrintTokens, NegativeTokens, AssignTokens("1")}

(* parser.ts lines 120-121 and ll_parser.ts lines 15-21 *)
InitLL ==
  /\ grammar = grammarUtilsGrammar
  /\ firstSets = <<>>
  /\ followSets = <<>>
  /\ parseTable = llBuildParseTable(grammarUtilsGrammar)
  /\ warnings = <<>>
  /\ pc = "ll"
  /\ pi = 1
  /\ changed = FALSE
  /\ run = 1
  /\ prev = NoPrev
  /\ isLL1Result = "none"
  /\ tokens \in LLInputs
  /\ parserType = "LL"
  /\ currentTokenIndex = 0
  /\ stack = <<"$", grammarUtilsGrammar.startSymbol>>
  /\ nodeStack = <<>>
  /\ nodes = <<>>
  /\ parseTree = NoTree
  /\ thrown = NoError
  /\ outcome = NoOutcome
  /\ calls = 0
  /\ EvalIdle

LLEngine == [stack |-> stack, index |-> currentTokenIndex, thrown |-> thrown]

(* line 32 *)
LLLoopCondition == Len(stack) > 0 /\ currentTokenIndex < Len(tokens)

(* lines 32-98: one iteration; a stack beyond MaxStack stands for one that  *)
(* grows without end                                                        *)
LLStep ==
  /\ pc = "ll"
  /\ thrown = NoError
  /\ LLLoopCondition
  /\ Len(stack) <= MaxStack
  /\ LET e == llLoopStep(LLEngine, parseTable, grammar, tokens)
     IN  /\ stack' = e.stack
         /\ currentTokenIndex' = e.index
         /\ thrown' = e.thrown
  /\ UNCHANGED <<analysisVars, tokens, nodeStack, nodes, parseTree, outcome, calls,
                 parserType>>
  /\ UNCHANGED evalVars

(* lines 100-107: the loop is over or has thrown; parse returns its Program *)
LLReturn ==
  /\ pc = "ll"
  /\ thrown # NoError \/ ~LLLoopCondition
  /\ pc' = "returned"
  /\ outcome' = Program(<<>>)
  /\ calls' = calls + 1
  /\ UNCHANGED <<grammar, firstSets, followSets, parseTable, warnings, pi, changed,
                 run, prev, isLL1Result, tokens, currentTokenIndex, stack, nodeStack,
                 nodes, parseTree, thrown, parserType>>
  /\ UNCHANGED evalVars

NextLL == LLStep \/ LLReturn

SpecLL == InitLL /\ [][NextLL]_vars

(* the iteration about to run takes one of the two special cases *)
SpecialCase ==
  /\ pc = "ll" /\ thrown = NoError /\ LLLoopCondition
  /\ \/ BinarySpecialCase(Top(stack), CurrentToken, currentTokenIndex)
     \/ CallSpecialCase(Top(stack), tokens, currentTokenIndex)

(* C28: LLParser.parse ends on every EOF-terminated token array. Which    *)
(* branch an iteration takes is decided by the top of the stack and the     *)
(* cursor alone, so in a parse that ends no iteration (the two special      *)
(* cases included) leaves the loop running with the same top of the stack   *)
(* at the same token: it consumes a token, ends the parse, or changes what  *)
(* the next iteration sees.                                                 *)
C28_LLParseMakesProgress ==
  [][(SpecialCase /\ LLLoopCondition' /\ thrown' = NoError)
       => (currentTokenIndex' > currentTokenIndex \/ Top(stack') # Top(stack))]_vars

----------------------------------------------------------------------------
(* The interpreter (runtime/interpreter.ts): eval_block, the loops and the  *)
(* control-flow values. Expressions other than numeric literals are         *)
(* evaluated by runtime/eval/expressions.ts; here their value is an input.  *)

(* runtime/values.ts lines 49-51 *)
MK_NUMBER(n) == [type |-> "number", value |-> <<n>>]

(* runtime/values.ts lines 102-104 *)
MK_BREAK == [type |-> "break", value |-> <<>>]

(* runtime/values.ts lines 106-108 *)
MK_CONTINUE == [type |-> "continue", value |-> <<>>]

(* runtime/values.ts lines 110-112: wrapped is <<>> for a bare return *)
MK_RETURN(wrapped) == [type |-> "return", value |-> wrapped]

(* AST nodes (frontend/ast.ts); an optional child is <<>> or <<node>> *)
Opaque(kind) == [kind |-> kind, value |-> 0]

BreakStatement == [kind |-> "BreakStatement"]

ContinueStatement == [kind |-> "ContinueStatement"]

(* `argument` is the optional `value` of the node *)
ReturnStatement(v) == [kind |-> "ReturnStatement", argument |-> v]

IfStatement(c, t, e) == [kind |-> "IfStatement", condition |-> c, then |-> t, else |-> e]

WhileStatement(c, b) == [kind |-> "WhileStatement", condition |-> <<c>>, body |-> b]

ForStatement(i, c, u, b) ==
  [kind |-> "ForStatement", init |-> i, condition |-> c, update |-> u, body |-> b]

(* interpreter.ts lines 189-196 *)
is_truthy(v) ==
  IF v.type = "null" THEN FALSE
  ELSE IF v.type = "boolean" THEN v.value[1]
  ELSE IF v.type = "number" THEN v.value[1] # 0
  ELSE IF v.type = "string" THEN v.value[1] # ""
  ELSE IF v.type = "array" THEN Len(v.value[1]) > 0
  ELSE TRUE

(* line 182 *)
IsControlFlow(v) == v.type \in {"break", "continue", "return"}

(* lines 104-107: a numeric literal evaluates to its number; any other      *)
(* expression to the value v its evaluator returns                          *)
evaluateExpr(node, v) ==
  IF node.kind = "NumericLiteral" THEN MK_NUMBER(node.value) ELSE v

RECURSIVE eval_block(_, _)
RECURSIVE evaluate(_)

(* lines 132-140 *)
eval_if_stmt(node) ==
  IF is_truthy(evaluate(node.condition)) THEN eval_block(node.then, 1)
  ELSE IF node.else # <<>> THEN eval_block(node.else[1], 1)
  ELSE MK_NULL

(* lines 171-176 *)
eval_return_stmt(node) ==
  IF node.argument # <<>> THEN MK_RETURN(<<evaluate(node.argument[1])>>)
  ELSE MK_RETURN(<<>>)

(* lines 50-103: the statements and expressions a loop body is made of *)
evaluate(node) ==
  CASE node.kind = "IfStatement" -> eval_if_stmt(node)
    [] node.kind = "ReturnStatement" -> eval_return_stmt(node)
    [] node.kind = "BreakStatement" -> MK_BREAK
    [] node.kind = "ContinueStatement" -> MK_CONTINUE
    [] OTHER -> evaluateExpr(node, MK_NULL)

(* lines 178-187, from statement i on: the result of the first statement    *)
(* that yields a control-flow value, else of the last statement             *)
eval_block(stmts, i) ==
  IF i > Len(stmts) THEN MK_NULL
  ELSE LET r == evaluate(stmts[i])
       IN  IF IsControlFlow(r) \/ i = Len(stmts) THEN r
           ELSE eval_block(stmts, i + 1)

IsLoop(node) == node.kind \in {"WhileStatement", "ForStatement"}

(* lines 145-146 and 160-165: where the loop goes after its body returned r *)
AfterBody(node, r) ==
  IF r.type = "break" THEN "exit"
  ELSE IF r.type = "continue" THEN "test"
  ELSE IF node.kind = "ForStatement" /\ node.update # <<>> THEN "update"
  ELSE "test"

(* Bounds and inputs *)
MaxBody == 2
MaxIters == 2

BodyStatements ==
  {NumericLiteral(1), BreakStatement, ContinueStatement,
   ReturnStatement(<<NumericLiteral(2)>>), ReturnStatement(<<>>),
   IfStatement(NumericLiteral(1), <<ContinueStatement>>, <<>>),
   IfStatement(NumericLiteral(0), <<BreakStatement>>,
               << <<ReturnStatement(<<NumericLiteral(2)>>)>> >>)}

Bodies == SeqsUpTo(BodyStatements, MaxBody)

Optional(node) == {<<>>, <<node>>}

Loops ==
  {WhileStatement(Opaque("BinaryExpr"), b) : b \in Bodies}
    \cup {ForStatement(i, c, u, b) :
            i \in Optional(Opaque("VarDeclaration")),
            c \in Optional(Opaque("BinaryExpr")),
            u \in Optional(Opaque("AssignmentExpr")),
            b \in Bodies}

(* what the evaluator of a loop condition can return *)
ConditionValues == {MK_NULL, MK_NUMBER(0), MK_NUMBER(1)}

(* eval_block is called on a block that holds a loop and a statement after it *)
InitEval ==
  /\ grammar = ll1Grammar
  /\ firstSets = <<>>
  /\ followSets = <<>>
  /\ parseTable = <<>>
  /\ warnings = <<>>
  /\ pc = "eval"
  /\ pi = 1
  /\ changed = FALSE
  /\ run = 1
  /\ prev = NoPrev
  /\ isLL1Result = "none"
  /\ ParserFresh
  /\ block \in {<<loop, NumericLiteral(7)>> : loop \in Loops}
  /\ epc = "block"
  /\ si = 1
  /\ lastResult = MK_NULL
  /\ loopValue = MK_NULL
  /\ blockResult = MK_NULL
  /\ iters = 0
  /\ updates = 0

TheLoop == block[1]

(* line 181 on a loop statement: lines 142-143 and 151-158, up to the first *)
(* test of the condition                                                    *)
EnterLoop ==
  /\ epc = "block"
  /\ si <= Len(block)
  /\ IsLoop(block[si])
  /\ epc' = "test"
  /\ UNCHANGED <<block, si, lastResult, loopValue, blockResult, iters, updates>>
  /\ UNCHANGED <<analysisVars, parserVars>>

(* lines 180-185 on any other statement *)
BlockStatement ==
  /\ epc = "block"
  /\ si <= Len(block)
  /\ ~IsLoop(block[si])
  /\ lastResult' = evaluate(block[si])
  /\ IF IsControlFlow(lastResult')
     THEN epc' = "done" /\ blockResult' = lastResult' /\ si' = si
     ELSE epc' = "block" /\ blockResult' = blockResult /\ si' = si + 1
  /\ UNCHANGED <<block, loopValue, iters, updates>>
  /\ UNCHANGED <<analysisVars, parserVars>>

(* line 186 *)
BlockEnd ==
  /\ epc = "block"
  /\ si > Len(block)
  /\ epc' = "done"
  /\ blockResult' = lastResult
  /\ UNCHANGED <<block, si, lastResult, loopValue, iters, updates>>
  /\ UNCHANGED <<analysisVars, parserVars>>

(* lines 143 and 158: the loop condition; v is what its evaluator returns *)
LoopTest(v) ==
  /\ epc = "test"
  /\ epc' = IF TheLoop.condition = <<>> \/ is_truthy(evaluateExpr(TheLoop.condition[1], v))
            THEN "body" ELSE "exit"
  /\ UNCHANGED <<block, si, lastResult, loopValue, blockResult, iters, updates>>
  /\ UNCHANGED <<analysisVars, parserVars>>

(* lines 144 and 159 *)
LoopBody ==
  /\ epc = "body"
  /\ iters < MaxIters
  /\ lastResult' = eval_block(TheLoop.body, 1)
  /\ iters' = iters + 1
  /\ epc' = "after"
  /\ UNCHANGED <<block, si, loopValue, blockResult, updates>>
  /\ UNCHANGED <<analysisVars, parserVars>>

(* lines 145-146 and 160-162 *)
LoopControl ==
  /\ epc = "after"
  /\ epc' = AfterBody(TheLoop, lastResult)
  /\ UNCHANGED <<block, si, lastResult, loopValue, blockResult, iters, updates>>
  /\ UNCHANGED <<analysisVars, parserVars>>

(* lines 163-165 *)
ForUpdate ==
  /\ epc = "update"
  /\ updates' = updates + 1
  /\ epc' = "test"
  /\ UNCHANGED <<block, si, lastResult, loopValue, blockResult, iters>>
  /\ UNCHANGED <<analysisVars, parserVars>>

(* lines 148 and 168: the loop statement returns MK_NULL() *)
LoopReturn ==
  /\ epc = "exit"
  /\ loopValue' = MK_NULL
  /\ epc' = "returned"
  /\ UNCHANGED <<block, si, lastResult, blockResult, iters, updates>>
  /\ UNCHANGED <<analysisVars, parserVars>>

(* lines 181-184: eval_block receives the value of the loop statement *)
BlockAfterLoop ==
  /\ epc = "returned"
  /\ lastResult' = loopValue
  /\ IF IsControlFlow(loopValue)
     THEN epc' = "done" /\ blockResult' = loopValue /\ si' = si
     ELSE epc' = "block" /\ blockResult' = blockResult /\ si' = si + 1
  /\ UNCHANGED <<block, loopValue, iters, updates>>
  /\ UNCHANGED <<analysisVars, parserVars>>

NextEval ==
  \/ EnterLoop
  \/ BlockStatement
  \/ BlockEnd
  \/ \E v \in ConditionValues : LoopTest(v)
  \/ LoopBody
  \/ LoopControl
  \/ ForUpdate
  \/ LoopReturn
  \/ BlockAfterLoop

SpecEval == InitEval /\ [][NextEval]_vars

(* C29: in a for loop with an update expression, a body execution that did  *)
(* not break is followed by an evaluation of the update before the          *)
(* condition is tested again, also when the body ended with continue.       *)
C29_UpdateFollowsBody ==
  [][(epc = "after" /\ TheLoop.kind = "ForStatement" /\ TheLoop.update # <<>>
        /\ lastResult.type # "break")
       => (epc' = "update" /\ updates' = updates)]_vars
  /\ [][(epc = "update") => (epc' = "test" /\ updates' = updates + 1)]_vars

(* C30: when the body of a loop yields a return value, no further iteration *)
(* runs, the loop statement returns that value, and eval_block of the       *)
(* enclosing block returns it in turn.                                      *)
C30_ReturnLeavesLoop ==
  /\ [][(epc = "after" /\ lastResult.type = "return") => epc' = "exit"]_vars
  /\ [][(epc = "exit" /\ lastResult.type = "return")
          => loopValue' = lastResult]_vars
  /\ [][(epc = "returned" /\ loopValue.type = "return")
          => (epc' = "done" /\ blockResult' = loopValue)]_vars

====
